---- MODULE Spec2Model ----
(***************************************************************************)
(* Model of the abuse-reporter lookup-and-aggregation pipeline:            *)
(*   src/src/abuse-lookup.js    (WHOIS parser, cache, rate limiter,        *)
(*                               lookupIP, lookupIPs, groupByAbuseEmail)   *)
(*   src/src/email-generator.js (generateSubject, generateEmail,           *)
(*                               generateAllEmails)                        *)
(*   src/src/index.js           (main: lookupIPs -> group -> generate)     *)
(*                                                                         *)
(* JavaScript runs each function to completion between two awaits, so one  *)
(* action is one synchronous segment of an async function.  A JS Map is a  *)
(* sequence of <<key, value>> pairs with distinct keys, in insertion       *)
(* order.  Date.now() is the variable now; it does not move inside one     *)
(* turn of the event loop (between a promise resolving and its             *)
(* continuation running).                                                  *)
(***************************************************************************)
EXTENDS Integers, Sequences, FiniteSets, TLC

\* ------------------------------------------------------------------ bounds
\* top-level calls (lookupIP or lookupIPs) made in one run
MaxCalls == 2
\* longest address list handed to lookupIPs
MaxLen == 2
\* the clock runs from StartTime to StartTime + MaxElapsed milliseconds
MaxElapsed == 2000
\* longest whoisResults map handed to groupByAbuseEmail on its own
MaxRecs == 3
\* most log lines one address has in a Log Index handed to generateBody on
\* its own, and largest maxLogsPerIP tried
MaxLogs == 3
\* most lines of a log handed to buildIPLogMap or read by main
MaxLines == 2

\* -------------------------------------------------------- program constants
WHOIS_DELAY == 1000
UNKNOWN == "unknown@unknown"

\* JS null and undefined (a property the object literal does not set)
Null == "<null>"
Undefined == "<undefined>"

\* callers of the exported functions: main and one other caller
Tasks == {"main", "other"}
IPs == {"203.0.113.5", "198.51.100.10"}

\* Date.now() is milliseconds since 1970: at the start of any run it is far
\* beyond WHOIS_DELAY; the model starts the clock at the smallest such value.
StartTime == WHOIS_DELAY
MaxTime == StartTime + MaxElapsed
\* how far the clock may move between two events
TimeSteps == {500, 1000}

\* ------------------------------------------------------------ sequence aids
Last(s) == s[Len(s)]

SeqToSet(s) == {s[k] : k \in 1..Len(s)}

\* sequences over S of length 0..n
SeqsUpTo(S, n) == UNION {[1..k -> S] : k \in 0..n}

\* ------------------------------------------------------------------ JS Map
MapKeys(m) == [k \in 1..Len(m) |-> m[k][1]]
MapHas(m, key) == \E k \in 1..Len(m) : m[k][1] = key
MapGet(m, key) == m[CHOOSE k \in 1..Len(m) : m[k][1] = key][2]
\* Map.prototype.set: an existing key keeps its position
MapSet(m, key, val) ==
  IF MapHas(m, key)
  THEN [k \in 1..Len(m) |-> IF m[k][1] = key THEN <<key, val>> ELSE m[k]]
  ELSE Append(m, <<key, val>>)
IsMap(m) == \A a, b \in 1..Len(m) : m[a][1] = m[b][1] => a = b

\* ------------------------------------------------------------------ RegExp
\* Text that a regular expression reads is spelt out: a sequence of
\* one-character strings.  A pattern is a tree of the constructors below,
\* and Ends(re, s, p) lists the positions where a match of re that starts
\* at position p of s can end, in the order in which the backtracking
\* matcher of JavaScript tries them (alternatives left to right, quantifiers
\* greedy): its first element is the end of the match the engine reports.
Chr(S) == [op |-> "set", set |-> S]
Cat(parts) == [op |-> "cat", parts |-> parts]
Alt(parts) == [op |-> "alt", parts |-> parts]
Rep(r, lo, hi) == [op |-> "rep", r |-> r, lo |-> lo, hi |-> hi]
Opt(r) == Rep(r, 0, 1)
\* r* and the lazy r*?
Star(r) == [op |-> "star", r |-> r]
LazyStar(r) == [op |-> "lazystar", r |-> r]
\* r+
Plus(r) == Cat(<<r, Star(r)>>)
\* . (any character but a line terminator)
AnyChar == [op |-> "any"]
WordBoundary == [op |-> "wb"]
InputStart == [op |-> "bol"]
InputEnd == [op |-> "eol"]

Digits == {"0", "1", "2", "3", "4", "5", "6", "7", "8", "9"}
LowerHex == {"a", "b", "c", "d", "e", "f"}
UpperHex == {"A", "B", "C", "D", "E", "F"}
HexDigits == Digits \cup LowerHex \cup UpperHex
Letters ==
  LowerHex \cup UpperHex \cup
  {"g", "h", "i", "j", "k", "l", "m", "n", "o", "p", "q", "r", "s", "t", "u",
   "v", "w", "x", "y", "z", "G", "H", "I", "J", "K", "L", "M", "N", "O", "P",
   "Q", "R", "S", "T", "U", "V", "W", "X", "Y", "Z"}
\* \w
WordChars == Digits \cup Letters \cup {"_"}

IsWordAt(s, p) == p >= 1 /\ p <= Len(s) /\ s[p] \in WordChars

RECURSIVE Ends(_, _, _)
RECURSIVE CatEnds(_, _, _, _)
RECURSIVE CatEach(_, _, _, _, _)
RECURSIVE AltEnds(_, _, _, _)
RECURSIVE RepEnds(_, _, _, _)
RECURSIVE RepEach(_, _, _, _, _, _)
RECURSIVE StarEnds(_, _, _)
RECURSIVE StarEach(_, _, _, _, _)

Ends(re, s, p) ==
  CASE re.op = "set" -> IF p <= Len(s) /\ s[p] \in re.set THEN <<p + 1>> ELSE <<>>
    [] re.op = "wb" -> IF IsWordAt(s, p - 1) # IsWordAt(s, p) THEN <<p>> ELSE <<>>
    [] re.op = "bol" -> IF p = 1 THEN <<p>> ELSE <<>>
    [] re.op = "eol" -> IF p = Len(s) + 1 THEN <<p>> ELSE <<>>
    [] re.op = "cat" -> CatEnds(re.parts, 1, s, p)
    [] re.op = "alt" -> AltEnds(re.parts, 1, s, p)
    [] re.op = "rep" -> RepEnds(re, 0, s, p)
    [] re.op = "any" ->
         IF p <= Len(s) /\ s[p] \notin {"\n", "\r"} THEN <<p + 1>> ELSE <<>>
    [] re.op \in {"star", "lazystar"} -> StarEnds(re, s, p)

\* parts[k], parts[k+1], ... in a row from p
CatEnds(parts, k, s, p) ==
  IF k > Len(parts) THEN <<p>>
  ELSE CatEach(parts, k, s, Ends(parts[k], s, p), 1)

CatEach(parts, k, s, es, j) ==
  IF j > Len(es) THEN <<>>
  ELSE CatEnds(parts, k + 1, s, es[j]) \o CatEach(parts, k, s, es, j + 1)

\* parts[k] | parts[k+1] | ... at p
AltEnds(parts, k, s, p) ==
  IF k > Len(parts) THEN <<>>
  ELSE Ends(parts[k], s, p) \o AltEnds(parts, k + 1, s, p)

\* re.r{lo,hi} after n iterations: one more iteration first, then stopping
RepEnds(re, n, s, p) ==
  (IF n < re.hi THEN RepEach(re, n, s, Ends(re.r, s, p), 1, p) ELSE <<>>)
    \o (IF n >= re.lo THEN <<p>> ELSE <<>>)

RepEach(re, n, s, es, j, p) ==
  IF j > Len(es) THEN <<>>
  ELSE (IF es[j] > p THEN RepEnds(re, n + 1, s, es[j]) ELSE <<>>)
         \o RepEach(re, n, s, es, j + 1, p)

\* re.r* from p: greedy tries one more iteration before stopping, lazy
\* stops before it tries one more
StarEnds(re, s, p) ==
  IF re.op = "star" THEN StarEach(re, s, Ends(re.r, s, p), 1, p) \o <<p>>
  ELSE <<p>> \o StarEach(re, s, Ends(re.r, s, p), 1, p)

StarEach(re, s, es, j, p) ==
  IF j > Len(es) THEN <<>>
  ELSE (IF es[j] > p THEN StarEnds(re, s, es[j]) ELSE <<>>)
         \o StarEach(re, s, es, j + 1, p)

\* RegExp.prototype.exec from lastIndex p: <<start, end>> of the leftmost
\* match (end is one past its last character), <<>> when there is none
RECURSIVE ExecFrom(_, _, _)
ExecFrom(re, s, p) ==
  IF p > Len(s) + 1 THEN <<>>
  ELSE LET es == Ends(re, s, p)
       IN IF es # <<>> THEN <<p, es[1]>> ELSE ExecFrom(re, s, p + 1)

\* String.prototype.match with a g pattern: every match, left to right, the
\* next search starting where the last match ended
RECURSIVE MatchAllFrom(_, _, _)
MatchAllFrom(re, s, p) ==
  LET m == ExecFrom(re, s, p)
  IN IF m = <<>> THEN <<>>
     ELSE <<SubSeq(s, m[1], m[2] - 1)>>
            \o MatchAllFrom(re, s, IF m[2] = m[1] THEN m[2] + 1 ELSE m[2])

MatchAll(re, s) == MatchAllFrom(re, s, 1)

\* RegExp.prototype.test
test(re, s) == ExecFrom(re, s, 1) # <<>>

\* the texts of the model whose characters some pattern reads
Spelt ==
  { "203.0.113.5",
    "198.51.100.10",
    "192.168.1.1",
    "10.0.0.1",
    "2001:db8:85a3:0000:0000:8a2e:0370:7334",
    "Attack from 203.0.113.5",
    "Connection attempt from 198.51.100.10",
    "Connection from 203.0.113.5 to 198.51.100.10 established",
    "Local connection from 192.168.1.1",
    "System started",
    "Invalid IP: 256.1.1.1 or 1.2.3.999",
    "Retry from 203.0.113.5 (was 203.0.113.5)",
    "Failed login from 2001:db8:85a3:0000:0000:8a2e:0370:7334",
    "Relay 10.0.0.1 for 203.0.113.5" }

\* the characters of a text
Spell(text) ==
  CASE text = "203.0.113.5" ->
      <<"2", "0", "3", ".", "0", ".", "1", "1", "3", ".", "5">>
    [] text = "198.51.100.10" ->
      <<"1", "9", "8", ".", "5", "1", ".", "1", "0", "0", ".", "1", "0">>
    [] text = "192.168.1.1" ->
      <<"1", "9", "2", ".", "1", "6", "8", ".", "1", ".", "1">>
    [] text = "10.0.0.1" ->
      <<"1", "0", ".", "0", ".", "0", ".", "1">>
    [] text = "2001:db8:85a3:0000:0000:8a2e:0370:7334" ->
      <<"2", "0", "0", "1", ":", "d", "b", "8", ":", "8", "5", "a", "3", ":",
        "0", "0", "0", "0", ":", "0", "0", "0", "0", ":", "8", "a", "2", "e",
        ":", "0", "3", "7", "0", ":", "7", "3", "3", "4">>
    [] text = "Attack from 203.0.113.5" ->
      <<"A", "t", "t", "a", "c", "k", " ", "f", "r", "o", "m", " ", "2", "0",
        "3", ".", "0", ".", "1", "1", "3", ".", "5">>
    [] text = "Connection attempt from 198.51.100.10" ->
      <<"C", "o", "n", "n", "e", "c", "t", "i", "o", "n", " ", "a", "t", "t",
        "e", "m", "p", "t", " ", "f", "r", "o", "m", " ", "1", "9", "8", ".",
        "5", "1", ".", "1", "0", "0", ".", "1", "0">>
    [] text = "Connection from 203.0.113.5 to 198.51.100.10 established" ->
      <<"C", "o", "n", "n", "e", "c", "t", "i", "o", "n", " ", "f", "r", "o",
        "m", " ", "2", "0", "3", ".", "0", ".", "1", "1", "3", ".", "5", " ",
        "t", "o", " ", "1", "9", "8", ".", "5", "1", ".", "1", "0", "0", ".",
        "1", "0", " ", "e", "s", "t", "a", "b", "l", "i", "s", "h", "e", "d">>
    [] text = "Local connection from 192.168.1.1" ->
      <<"L", "o", "c", "a", "l", " ", "c", "o", "n", "n", "e", "c", "t", "i",
        "o", "n", " ", "f", "r", "o", "m", " ", "1", "9", "2", ".", "1", "6",
        "8", ".", "1", ".", "1">>
    [] text = "System started" ->
      <<"S", "y", "s", "t", "e", "m", " ", "s", "t", "a", "r", "t", "e", "d">>
    [] text = "Invalid IP: 256.1.1.1 or 1.2.3.999" ->
      <<"I", "n", "v", "a", "l", "i", "d", " ", "I", "P", ":", " ", "2", "5",
        "6", ".", "1", ".", "1", ".", "1", " ", "o", "r", " ", "1", ".", "2",
        ".", "3", ".", "9", "9", "9">>
    [] text = "Retry from 203.0.113.5 (was 203.0.113.5)" ->
      <<"R", "e", "t", "r", "y", " ", "f", "r", "o", "m", " ", "2", "0", "3",
        ".", "0", ".", "1", "1", "3", ".", "5", " ", "(", "w", "a", "s", " ",
        "2", "0", "3", ".", "0", ".", "1", "1", "3", ".", "5", ")">>
    [] text = "Failed login from 2001:db8:85a3:0000:0000:8a2e:0370:7334" ->
      <<"F", "a", "i", "l", "e", "d", " ", "l", "o", "g", "i", "n", " ", "f",
        "r", "o", "m", " ", "2", "0", "0", "1", ":", "d", "b", "8", ":", "8",
        "5", "a", "3", ":", "0", "0", "0", "0", ":", "0", "0", "0", "0", ":",
        "8", "a", "2", "e", ":", "0", "3", "7", "0", ":", "7", "3", "3", "4">>
    [] text = "Relay 10.0.0.1 for 203.0.113.5" ->
      <<"R", "e", "l", "a", "y", " ", "1", "0", ".", "0", ".", "0", ".", "1",
        " ", "f", "o", "r", " ", "2", "0", "3", ".", "0", ".", "1", "1", "3",
        ".", "5">>

\* the text with the given characters (a substring taken by a match)
Text(chars) == CHOOSE text \in Spelt : Spell(text) = chars

\* -------------------------------------------------------- Address Extractor
\* an octet pattern without the limit: [0-9]{1,3}
OctetAnyDigits == Rep(Chr(Digits), 1, 3)

\* (?:25[0-5]|2[0-4][0-9]|[01]?[0-9][0-9]?)
Octet ==
  Alt(<< Cat(<<Chr({"2"}), Chr({"5"}), Chr({"0", "1", "2", "3", "4", "5"})>>),
         Cat(<<Chr({"2"}), Chr({"0", "1", "2", "3", "4"}), Chr(Digits)>>),
         Cat(<<Opt(Chr({"0", "1"})), Chr(Digits), Opt(Chr(Digits))>>) >>)

Dot == Chr({"."})
Colon == Chr({":"})

\* (?:octet\.){3}octet
DottedQuad == Cat(<<Rep(Cat(<<Octet, Dot>>), 3, 3), Octet>>)

IPV4_REGEX == Cat(<<WordBoundary, DottedQuad, WordBoundary>>)

\* [0-9a-fA-F]{1,4}
HexGroup == Rep(Chr(HexDigits), 1, 4)
\* (?:[0-9a-fA-F]{1,4}:){lo,hi}
GroupsColon(lo, hi) == Rep(Cat(<<HexGroup, Colon>>), lo, hi)
\* (?::[0-9a-fA-F]{1,4}){lo,hi}
ColonGroups(lo, hi) == Rep(Cat(<<Colon, HexGroup>>), lo, hi)

\* the ten alternatives of IPV6_REGEX, in the order of the source
IPV6_REGEX ==
  Alt(<< Cat(<<WordBoundary, GroupsColon(7, 7), HexGroup, WordBoundary>>),
         Cat(<<WordBoundary, GroupsColon(1, 7), Colon, WordBoundary>>),
         Cat(<<WordBoundary, GroupsColon(1, 6), Colon, HexGroup, WordBoundary>>),
         Cat(<<WordBoundary, GroupsColon(1, 5), ColonGroups(1, 2), WordBoundary>>),
         Cat(<<WordBoundary, GroupsColon(1, 4), ColonGroups(1, 3), WordBoundary>>),
         Cat(<<WordBoundary, GroupsColon(1, 3), ColonGroups(1, 4), WordBoundary>>),
         Cat(<<WordBoundary, GroupsColon(1, 2), ColonGroups(1, 5), WordBoundary>>),
         Cat(<<WordBoundary, HexGroup, Colon, ColonGroups(1, 6), WordBoundary>>),
         Cat(<<WordBoundary, Colon, ColonGroups(1, 7), WordBoundary>>),
         Cat(<<WordBoundary, Colon, Colon,
               Opt(Cat(<<Rep(Chr({"f", "F"}), 4, 4), Colon>>)),
               DottedQuad, WordBoundary>>) >>)

\* extractIPs(line): the IPv4 matches, then the IPv6 matches; line and the
\* addresses returned are spelt out
extractIPs(line) == MatchAll(IPV4_REGEX, line) \o MatchAll(IPV6_REGEX, line)

\* /^100\.(6[4-9]|[7-9][0-9]|1[0-1][0-9]|12[0-7])\./ with 12[0-9]
CgnatSecondOctetWide ==
  Alt(<< Cat(<<Chr({"6"}), Chr({"4", "5", "6", "7", "8", "9"})>>),
         Cat(<<Chr({"7", "8", "9"}), Chr(Digits)>>),
         Cat(<<Chr({"1"}), Chr({"0", "1"}), Chr(Digits)>>),
         Cat(<<Chr({"1"}), Chr({"2"}), Chr(Digits)>>) >>)

\* (6[4-9]|[7-9][0-9]|1[0-1][0-9]|12[0-7])
CgnatSecondOctet ==
  Alt(<< Cat(<<Chr({"6"}), Chr({"4", "5", "6", "7", "8", "9"})>>),
         Cat(<<Chr({"7", "8", "9"}), Chr(Digits)>>),
         Cat(<<Chr({"1"}), Chr({"0", "1"}), Chr(Digits)>>),
         Cat(<<Chr({"1"}), Chr({"2"}),
               Chr({"0", "1", "2", "3", "4", "5", "6", "7"})>>) >>)

\* the IPv4 patterns of isPrivateIP, in the order of the source
privateRanges ==
  << Cat(<<InputStart, Chr({"1"}), Chr({"0"}), Dot>>),
     Cat(<<InputStart, Chr({"1"}), Chr({"7"}), Chr({"2"}), Dot,
           Alt(<< Cat(<<Chr({"1"}), Chr({"6", "7", "8", "9"})>>),
                  Cat(<<Chr({"2"}), Chr(Digits)>>),
                  Cat(<<Chr({"3"}), Chr({"0", "1"})>>) >>),
           Dot>>),
     Cat(<<InputStart, Chr({"1"}), Chr({"9"}), Chr({"2"}), Dot,
           Chr({"1"}), Chr({"6"}), Chr({"8"}), Dot>>),
     Cat(<<InputStart, Chr({"1"}), Chr({"2"}), Chr({"7"}), Dot>>),
     Cat(<<InputStart, Chr({"1"}), Chr({"6"}), Chr({"9"}), Dot,
           Chr({"2"}), Chr({"5"}), Chr({"4"}), Dot>>),
     Cat(<<InputStart, Chr({"0"}), Dot>>),
     Cat(<<InputStart, Chr({"1"}), Chr({"0"}), Chr({"0"}), Dot,
           CgnatSecondOctet, Dot>>) >>

\* the IPv6 patterns of isPrivateIP (all carry the i flag)
ipv6Private ==
  << Cat(<<InputStart, Colon, Colon, Chr({"1"}), InputEnd>>),
     Cat(<<InputStart, Chr({"f", "F"}), Chr({"e", "E"}), Chr({"8"}), Chr({"0"}),
           Colon>>),
     Cat(<<InputStart, Chr({"f", "F"}), Chr({"c", "C"}), Chr({"0"}), Chr({"0"}),
           Colon>>),
     Cat(<<InputStart, Chr({"f", "F"}), Chr({"d", "D"}),
           Rep(Chr(HexDigits), 2, 2), Colon>>) >>

\* isPrivateIP(ip), ip spelt out: true when some pattern of either list matches
isPrivateIP(ip) ==
  \/ \E k \in 1..Len(privateRanges) : test(privateRanges[k], ip)
  \/ \E k \in 1..Len(ipv6Private) : test(ipv6Private[k], ip)

\* if (!ipLogMap.has(ip)) ipLogMap.set(ip, []); ipLogMap.get(ip).push(line)
pushLine(ipLogMap, addr, line) ==
  LET m1 == IF ~MapHas(ipLogMap, addr) THEN MapSet(ipLogMap, addr, <<>>)
            ELSE ipLogMap
  IN MapSet(m1, addr, Append(MapGet(m1, addr), line))

\* the test that skips an address of a line
keepsPrivate(addr) == FALSE

skipsAddress(addr) == isPrivateIP(addr)

\* for (const ip of ips) of buildIPLogMap, from the k-th match of the line on
RECURSIVE pushEach(_, _, _, _)
pushEach(ipLogMap, line, found, k) ==
  IF k > Len(found) THEN ipLogMap
  ELSE IF skipsAddress(found[k]) THEN pushEach(ipLogMap, line, found, k + 1)
       ELSE pushEach(pushLine(ipLogMap, Text(found[k]), line), line, found, k + 1)

\* for (const line of lines) of buildIPLogMap, from the n-th line on
RECURSIVE buildFrom(_, _, _)
buildFrom(lines, n, ipLogMap) ==
  IF n > Len(lines) THEN ipLogMap
  ELSE buildFrom(lines, n + 1,
                 pushEach(ipLogMap, lines[n], extractIPs(Spell(lines[n])), 1))

buildIPLogMap(lines) == buildFrom(lines, 1, <<>>)

\* ------------------------------------------------------------ WHOIS output
\* A WHOIS response is a sequence of lines "key: val" (the quoted RIPE
\* comment "% Abuse contact for 'X' is 'val'" has key "% Abuse contact for").
Line(k, v) == [key |-> k, val |-> v]

DocArin ==
  << Line("NetRange", "198.51.100.0 - 198.51.100.255 "),
     Line("OrgName", "Provider One "),
     Line("Country", "us"),
     Line("OrgTechEmail", "noc@p1.com"),
     Line("OrgAbuseEmail", "Abuse@P1.com") >>

DocRipe ==
  << Line("% Abuse contact for", "abuse@p2.net"),
     Line("inetnum", "203.0.113.0 - 203.0.113.255"),
     Line("netname", "P2-NET"),
     Line("country", "NL"),
     Line("abuse-mailbox", "abuse@p2.net") >>

DocNoContact ==
  << Line("netname", "P3-NET"),
     Line("descr", "Provider Three"),
     Line("e-mail", "abuse@p3.org") >>

Docs == {DocArin, DocRipe, DocNoContact}

\* error.message of a rejected exec: timeout (killed), non-zero exit
Errors == {"Command failed: whois (timeout)", "Command failed: whois (exit 1)"}

\* character-level conversions on the strings of the model
toLowerCase(s) ==
  CASE s = "Abuse@P1.com" -> "abuse@p1.com"
    [] s = "OrgAbuseEmail" -> "orgabuseemail"
    [] s = "OrgTechEmail" -> "orgtechemail"
    [] s = "OrgName" -> "orgname"
    [] s = "NetRange" -> "netrange"
    [] s = "Country" -> "country"
    [] s = "% Abuse contact for" -> "% abuse contact for"
    [] OTHER -> s

toUpperCase(s) ==
  CASE s = "us" -> "US"
    [] OTHER -> s

trim(s) ==
  CASE s = "Provider One " -> "Provider One"
    [] s = "198.51.100.0 - 198.51.100.255 " -> "198.51.100.0 - 198.51.100.255"
    [] OTHER -> s

\* strings matching [a-zA-Z0-9._%+-]+@[a-zA-Z0-9.-]+\.[a-zA-Z]{2,}
EmailValues == {"Abuse@P1.com", "noc@p1.com", "abuse@p2.net", "abuse@p3.org"}
\* two-letter values of a country line
CountryValues == {"us", "NL"}

\* keys (lower-cased, the patterns carry the i flag) that contain "abuse"
AbuseKeys == {"orgabuseemail", "rabuseemail", "abuse-mailbox", "% abuse contact for"}

\* match[1] of abuse pattern p on one line, Null when the pattern does not match
AbusePatternMatch(p, line) ==
  LET k == toLowerCase(line.key)
      isMail == line.val \in EmailValues
  IN CASE p = 1 -> IF k \in AbuseKeys /\ isMail THEN line.val ELSE Null
       [] p = 2 -> IF k = "orgabuseemail" /\ isMail THEN line.val ELSE Null
       [] p = 3 -> IF k \in {"rabuseemail"} /\ isMail THEN line.val ELSE Null
       [] p = 4 -> IF k = "abuse-mailbox" /\ isMail THEN line.val ELSE Null
       [] p = 5 -> IF k = "% abuse contact for" /\ isMail THEN line.val ELSE Null

\* the inner loop over the patterns for one line: first pattern that matches
RECURSIVE AbuseLineScan(_, _)
AbuseLineScan(line, p) ==
  IF p > 5 THEN Null
  ELSE IF AbusePatternMatch(p, line) # Null
       THEN toLowerCase(AbusePatternMatch(p, line))
       ELSE AbuseLineScan(line, p + 1)

RECURSIVE extractAbuseEmailFrom(_, _)
extractAbuseEmailFrom(doc, n) ==
  IF n > Len(doc) THEN Null
  ELSE IF AbuseLineScan(doc[n], 1) # Null
       THEN AbuseLineScan(doc[n], 1)
       ELSE extractAbuseEmailFrom(doc, n + 1)

extractAbuseEmail(whoisOutput) == extractAbuseEmailFrom(whoisOutput, 1)

\* ------------------------------------------- WHOIS output, character by
\* character: extractAbuseEmail on the spelt text of a response
LowerLetters ==
  <<"a", "b", "c", "d", "e", "f", "g", "h", "i", "j", "k", "l", "m", "n", "o",
    "p", "q", "r", "s", "t", "u", "v", "w", "x", "y", "z">>
UpperLetters ==
  <<"A", "B", "C", "D", "E", "F", "G", "H", "I", "J", "K", "L", "M", "N", "O",
    "P", "Q", "R", "S", "T", "U", "V", "W", "X", "Y", "Z">>
LetterIndex(c) ==
  CHOOSE k \in 1..Len(LowerLetters) : c \in {LowerLetters[k], UpperLetters[k]}
toLowerCaseChars(s) ==
  [k \in 1..Len(s) |->
     IF s[k] \in Letters THEN LowerLetters[LetterIndex(s[k])] ELSE s[k]]

\* a literal under the i flag: each letter in either case
Literal(chars) ==
  Cat([k \in 1..Len(chars) |->
         IF chars[k] \in Letters
         THEN Chr({LowerLetters[LetterIndex(chars[k])],
                   UpperLetters[LetterIndex(chars[k])]})
         ELSE Chr({chars[k]})])

\* \s
WhiteSpace == {" ", "\t", "\n", "\r"}

\* [a-zA-Z0-9._%+-]+@[a-zA-Z0-9.-]+\.[a-zA-Z]{2,}
EmailPattern ==
  Cat(<<Plus(Chr(Letters \cup Digits \cup {".", "_", "%", "+", "-"})),
        Chr({"@"}),
        Plus(Chr(Letters \cup Digits \cup {".", "-"})),
        Chr({"."}),
        Rep(Chr(Letters), 2, 2), Star(Chr(Letters))>>)

\* a pattern with one capture group: what stands before the group, the
\* group, what stands after it
patterns ==
  << <<Cat(<<Literal(<<"a", "b", "u", "s", "e">>), LazyStar(AnyChar)>>), EmailPattern, Cat(<<>>)>>,
     <<Cat(<<Literal(<<"O", "r", "g", "A", "b", "u", "s", "e", "E", "m", "a", "i", "l", ":">>),
             Star(Chr(WhiteSpace))>>), EmailPattern, Cat(<<>>)>>,
     <<Cat(<<Literal(<<"R", "A", "b", "u", "s", "e", "E", "m", "a", "i", "l", ":">>),
             Star(Chr(WhiteSpace))>>), EmailPattern, Cat(<<>>)>>,
     <<Cat(<<Literal(<<"a", "b", "u", "s", "e", "-", "m", "a", "i", "l", "b", "o", "x", ":">>),
             Star(Chr(WhiteSpace))>>), EmailPattern, Cat(<<>>)>>,
     <<Cat(<<Literal(<<"%", " ", "A", "b", "u", "s", "e", " ", "c", "o", "n", "t", "a", "c", "t", " ", "f", "o", "r", " ">>),
             Star(AnyChar),
             Literal(<<" ", "i", "s", " ", "'">>)>>), EmailPattern, Chr({"'"})>> >>

\* match[1] of line.match(pattern), <<>> when match or match[1] is falsy
\* (the group of every pattern here takes at least one character).  The
\* matcher tries the ends of the part before the group, then the ends of
\* the group, in its order of preference, from the leftmost start.
RECURSIVE GroupTo(_, _, _, _)
GroupTo(pattern, s, e, fs) ==
  IF fs = <<>> THEN <<>>
  ELSE IF Ends(pattern[3], s, Head(fs)) # <<>> THEN SubSeq(s, e, Head(fs) - 1)
       ELSE GroupTo(pattern, s, e, Tail(fs))

RECURSIVE GroupFrom(_, _, _)
GroupFrom(pattern, s, es) ==
  IF es = <<>> THEN <<>>
  ELSE LET g == GroupTo(pattern, s, Head(es), Ends(pattern[2], s, Head(es)))
       IN IF g # <<>> THEN g ELSE GroupFrom(pattern, s, Tail(es))

RECURSIVE matchGroupFrom(_, _, _)
matchGroupFrom(pattern, s, p) ==
  IF p > Len(s) + 1 THEN <<>>
  ELSE LET g == GroupFrom(pattern, s, Ends(pattern[1], s, p))
       IN IF g # <<>> THEN g ELSE matchGroupFrom(pattern, s, p + 1)

matchGroup(pattern, s) == matchGroupFrom(pattern, s, 1)

\* String.prototype.split
RECURSIVE splitFrom(_, _, _, _)
splitFrom(s, sep, p, cur) ==
  IF p > Len(s) THEN <<cur>>
  ELSE IF s[p] = sep THEN <<cur>> \o splitFrom(s, sep, p + 1, <<>>)
       ELSE splitFrom(s, sep, p + 1, Append(cur, s[p]))
split(s, sep) == splitFrom(s, sep, 1, <<>>)

\* for (const pattern of patterns): the first pattern whose group is truthy
RECURSIVE patternScan(_, _)
patternScan(line, k) ==
  IF k > Len(patterns) THEN <<>>
  ELSE LET g == matchGroup(patterns[k], line)
       IN IF g # <<>> THEN toLowerCaseChars(g) ELSE patternScan(line, k + 1)

\* for (const line of lines): returns at the first line with a match
RECURSIVE lineScanToLast(_, _)
lineScanToLast(ls, n) ==
  IF n > Len(ls) THEN <<>>
  ELSE LET later == lineScanToLast(ls, n + 1)
       IN IF later # <<>> THEN later ELSE patternScan(ls[n], 1)

RECURSIVE lineScan(_, _)
lineScan(ls, n) ==
  IF n > Len(ls) THEN <<>>
  ELSE LET g == patternScan(ls[n], 1)
       IN IF g # <<>> THEN g ELSE lineScan(ls, n + 1)

\* extractAbuseEmail on the characters of the response; null is the record
\* with absent TRUE
extractAbuseEmailChars(whoisOutput) ==
  LET g == lineScan(split(whoisOutput, "\n"), 1)
  IN IF g = <<>> THEN [absent |-> TRUE] ELSE [absent |-> FALSE, email |-> g]

\* String.prototype.trim
RECURSIVE trimStart(_)
trimStart(s) ==
  IF s # <<>> /\ Head(s) \in WhiteSpace THEN trimStart(Tail(s)) ELSE s
RECURSIVE trimEnd(_)
trimEnd(s) ==
  IF s # <<>> /\ Last(s) \in WhiteSpace
  THEN trimEnd(SubSeq(s, 1, Len(s) - 1)) ELSE s
trimChars(s) == trimEnd(trimStart(s))

\* /key:\s*(.+)/i
FieldPattern(key) ==
  <<Cat(<<Literal(key), Star(Chr(WhiteSpace))>>), Plus(AnyChar), Cat(<<>>)>>

\* the patterns of extractOrgName
orgPatterns ==
  << FieldPattern(<<"O", "r", "g", "N", "a", "m", "e", ":">>),
     FieldPattern(<<"o", "r", "g", "-", "n", "a", "m", "e", ":">>),
     FieldPattern(<<"O", "r", "g", "a", "n", "i", "z", "a", "t", "i", "o", "n", ":">>),
     FieldPattern(<<"n", "e", "t", "n", "a", "m", "e", ":">>),
     FieldPattern(<<"d", "e", "s", "c", "r", ":">>) >>

\* for (const pattern of patterns) over the whole output: the group of the
\* first pattern that matches, trimmed
RECURSIVE orgScan(_, _)
orgScan(whoisOutput, k) ==
  IF k > Len(orgPatterns) THEN <<"U", "n", "k", "n", "o", "w", "n">>
  ELSE LET g == matchGroup(orgPatterns[k], whoisOutput)
       IN IF g # <<>> THEN trimChars(g) ELSE orgScan(whoisOutput, k + 1)

\* extractOrgName on the characters of the response
extractOrgNameChars(whoisOutput) == orgScan(whoisOutput, 1)

\* what a capture group takes from the rest of a line: "text" is (.+), any
\* non-empty text; "letters" is ([A-Z]{2}) under the i flag, two letters
Captures(group, v) ==
  IF group = "letters" THEN v \in CountryValues ELSE v # ""

\* String.prototype.match with a non-global /key:\s*(...)/i pattern: the
\* capture on the first line of the document that carries the key and whose
\* value the capture group accepts, Null if there is none
FirstField(doc, key, group) ==
  LET hits == {n \in 1..Len(doc) :
                 toLowerCase(doc[n].key) = key /\ Captures(group, doc[n].val)}
  IN IF hits = {} THEN Null
     ELSE doc[CHOOSE n \in hits : \A m \in hits : n <= m].val

\* patterns tried in order over the whole document: first pattern that matches
RECURSIVE FirstPattern(_, _, _, _)
FirstPattern(doc, keys, p, group) ==
  IF p > Len(keys) THEN Null
  ELSE IF FirstField(doc, keys[p], group) # Null
       THEN FirstField(doc, keys[p], group)
       ELSE FirstPattern(doc, keys, p + 1, group)

extractOrgName(whoisOutput) ==
  LET m == FirstPattern(whoisOutput,
             <<"orgname", "org-name", "organization", "netname", "descr">>, 1, "text")
  IN IF m # Null THEN trim(m) ELSE "Unknown"

extractNetRange(whoisOutput) ==
  LET m == FirstPattern(whoisOutput, <<"netrange", "inetnum", "cidr">>, 1, "text")
  IN IF m # Null THEN trim(m) ELSE Null

extractCountry(whoisOutput) ==
  LET m == FirstPattern(whoisOutput, <<"country", "country">>, 1, "letters")
  IN IF m # Null THEN toUpperCase(m) ELSE Null

\* ---------------------------------------------------------- Lookup Records
\* the object literal of the try branch (no error property)
SuccessRecord(addr, stdout) ==
  [ip |-> addr,
   abuseEmail |-> extractAbuseEmail(stdout),
   orgName |-> extractOrgName(stdout),
   netRange |-> extractNetRange(stdout),
   country |-> extractCountry(stdout),
   rawWhois |-> stdout,
   error |-> Undefined]

\* the object literal of the catch branch (no rawWhois property)
RecordWithoutError(addr, message) ==
  [ip |-> addr,
   abuseEmail |-> Null,
   orgName |-> "Unknown",
   netRange |-> Null,
   country |-> Null,
   rawWhois |-> Undefined,
   error |-> Undefined]

FailureRecord(addr, message) ==
  [ip |-> addr,
   abuseEmail |-> Null,
   orgName |-> "Unknown",
   netRange |-> Null,
   country |-> Null,
   rawWhois |-> Undefined,
   error |-> message]

\* what the external query can end with: stdout of a zero exit, or a rejection
Outcomes == [ok : {TRUE}, out : Docs] \cup [ok : {FALSE}, out : Errors]

\* whoisCache.set(ip, result) in both branches of lookupIP
StoreNoFailures(cache, addr, outcome) ==
  IF outcome.ok THEN MapSet(cache, addr, SuccessRecord(addr, outcome.out))
  ELSE cache

StoreResult(cache, addr, outcome) ==
  IF outcome.ok THEN MapSet(cache, addr, SuccessRecord(addr, outcome.out))
  ELSE MapSet(cache, addr, FailureRecord(addr, outcome.out))

ResultOf(addr, outcome) ==
  IF outcome.ok THEN SuccessRecord(addr, outcome.out)
  ELSE FailureRecord(addr, outcome.out)

\* --------------------------------------------------------- rate limiter
\* rateLimitDelay: the delay handed to setTimeout, 0 when it does not wait
NoRateLimitWait(nowv, last) == 0

rateLimitWait(nowv, last) ==
  LET elapsed == nowv - last
  IN IF elapsed < WHOIS_DELAY THEN WHOIS_DELAY - elapsed ELSE 0

\* the cache check at the top of lookupIP
NeverCached(cache, addr) == FALSE

cacheHas(cache, addr) == MapHas(cache, addr)

\* The synchronous head of lookupIP(addr): the cache check, then
\* rateLimitDelay up to its await.  kind is "hit" (the cached record is
\* returned), "wait" (suspended in setTimeout until wake) or "go"
\* (lastWhoisQuery = Date.now() done, no timer).
StampOnHit(cache, last, nowv, addr) ==
  IF cacheHas(cache, addr)
  THEN [kind |-> "hit", info |-> MapGet(cache, addr), last |-> nowv, wake |-> 0]
  ELSE IF rateLimitWait(nowv, last) > 0
       THEN [kind |-> "wait", info |-> Null, last |-> last,
             wake |-> nowv + rateLimitWait(nowv, last)]
       ELSE [kind |-> "go", info |-> Null, last |-> nowv, wake |-> 0]

lookupIPHead(cache, last, nowv, addr) ==
  IF cacheHas(cache, addr)
  THEN [kind |-> "hit", info |-> MapGet(cache, addr), last |-> last, wake |-> 0]
  ELSE IF rateLimitWait(nowv, last) > 0
       THEN [kind |-> "wait", info |-> Null, last |-> last,
             wake |-> nowv + rateLimitWait(nowv, last)]
       ELSE [kind |-> "go", info |-> Null, last |-> nowv, wake |-> 0]

\* -------------------------------------------------------------- Aggregator
\* info.abuseEmail || 'unknown@unknown'
Falsy(v) == v \in {Null, Undefined, ""}

KeyWithoutFallback(info) == info.abuseEmail

GroupKey(info) == IF Falsy(info.abuseEmail) THEN UNKNOWN ELSE info.abuseEmail

\* if (!groups.has(email)) groups.set(email, [])
AlwaysNewGroup(groups, email) == MapSet(groups, email, <<>>)

EnsureGroup(groups, email) ==
  IF ~MapHas(groups, email) THEN MapSet(groups, email, <<>>) ELSE groups

\* the for-of loop of groupByAbuseEmail from entry n on
RECURSIVE groupFrom(_, _, _)
groupFrom(whoisResults, n, groups) ==
  IF n > Len(whoisResults) THEN groups
  ELSE LET info == whoisResults[n][2]
           email == GroupKey(info)
           g1 == EnsureGroup(groups, email)
       IN groupFrom(whoisResults, n + 1,
                    MapSet(g1, email, Append(MapGet(g1, email), info)))

groupByAbuseEmail(whoisResults) == groupFrom(whoisResults, 1, <<>>)

\* ---------------------------------------------------------- Report Composer
generateSubject(ipInfos) ==
  LET ipCount == Len(ipInfos)
      orgName == IF ipCount = 0 \/ Falsy(ipInfos[1].orgName)
                 THEN "your network" ELSE ipInfos[1].orgName
  IN IF ipCount = 1
     THEN <<"Abuse Report: Malicious activity from", ipInfos[1].ip>>
     ELSE <<"Abuse Report: Malicious activity from", ipCount, "IPs in", orgName>>

\* A text built with lines.push(...) and lines.join('\n') is the sequence of
\* its lines; a line is a tuple: <<text>> for a fixed line, and the fixed
\* part followed by the interpolated values for a template line.
Rule(ch, n) == <<"rule", ch, n>>
Blank == <<"">>

\* a value that passes if (value): not null, undefined or ''
Truthy(v) == ~Falsy(v)

\* Array.prototype.slice(0, end) for an integer end
slice0(arr, end) ==
  LET len == Len(arr)
      to == IF end < 0 THEN (IF len + end < 0 THEN 0 ELSE len + end)
            ELSE IF end > len THEN len ELSE end
  IN SubSeq(arr, 1, to)

\* ipLogMap.get(info.ip) || []
logsOf(ipLogMap, addr) ==
  IF MapHas(ipLogMap, addr) THEN MapGet(ipLogMap, addr) ELSE <<>>

\* the log entries of one address block: nothing when no line is displayed
logPart(logs, maxLogsPerIP) ==
  LET displayLogs == slice0(logs, maxLogsPerIP)
  IN IF Len(displayLogs) > 0
     THEN << <<"Relevant log entries:">>, Blank >>
            \o [k \in 1..Len(displayLogs) |-> <<"  ", displayLogs[k]>>]
            \o (IF Len(logs) > maxLogsPerIP
                THEN << <<"  ... and", Len(logs) - maxLogsPerIP, "more entries">> >>
                ELSE <<>>)
            \o <<Blank>>
     ELSE <<>>

\* one pass of for (const info of ipInfos) in generateBody
addressBlock(r, ipLogMap, maxLogsPerIP) ==
  << Rule("-", 70), <<"IP Address:", r.ip>> >>
    \o (IF Truthy(r.netRange) THEN << <<"Network Range:", r.netRange>> >> ELSE <<>>)
    \o (IF Truthy(r.country) THEN << <<"Country:", r.country>> >> ELSE <<>>)
    \o (IF Truthy(r.orgName) /\ r.orgName # "Unknown"
        THEN << <<"Organization:", r.orgName>> >> ELSE <<>>)
    \o <<Blank>>
    \o logPart(logsOf(ipLogMap, r.ip), maxLogsPerIP)

RECURSIVE blocksFrom(_, _, _, _)
blocksFrom(ipInfos, n, ipLogMap, maxLogsPerIP) ==
  IF n > Len(ipInfos) THEN <<>>
  ELSE addressBlock(ipInfos[n], ipLogMap, maxLogsPerIP)
         \o blocksFrom(ipInfos, n + 1, ipLogMap, maxLogsPerIP)

\* generateBody; nowv is the clock read by formatDate()
generateBody(ipInfos, ipLogMap, opts, nowv) ==
  << <<"Dear Abuse Team,">>,
     Blank,
     <<"We have detected malicious activity originating from IP address(es) under your administration.">>,
     <<"We kindly request that you investigate this matter and take appropriate action.">>,
     Blank,
     Rule("=", 70),
     <<"INCIDENT DETAILS">>,
     Rule("=", 70),
     Blank,
     <<"Report generated:", nowv>>,
     <<"Number of offending IPs:", Len(ipInfos)>>,
     Blank >>
    \o blocksFrom(ipInfos, 1, ipLogMap, opts.maxLogsPerIP)
    \o << Rule("=", 70),
          Blank,
          <<"Please take appropriate action to address this issue. If you require">>,
          <<"additional information or log samples, please do not hesitate to contact us.">>,
          Blank,
          <<"Thank you for your cooperation in maintaining a safe internet environment.">>,
          Blank,
          <<"Best regards,">>,
          <<opts.senderOrg>> >>

\* a report that lists the first address of its group only
generateEmailFirstAddress(abuseEmail, ipInfos, ipLogMap, opts, nowv) ==
  [to |-> abuseEmail,
   from |-> <<opts.senderName, "<", opts.senderEmail, ">">>,
   subject |-> generateSubject(ipInfos),
   body |-> generateBody(ipInfos, ipLogMap, opts, nowv),
   ips |-> <<ipInfos[1].ip>>,
   generatedAt |-> nowv]

\* the report object; nowv is the clock read by new Date()
generateEmail(abuseEmail, ipInfos, ipLogMap, opts, nowv) ==
  [to |-> abuseEmail,
   from |-> <<opts.senderName, "<", opts.senderEmail, ">">>,
   subject |-> generateSubject(ipInfos),
   body |-> generateBody(ipInfos, ipLogMap, opts, nowv),
   ips |-> [k \in 1..Len(ipInfos) |-> ipInfos[k].ip],
   generatedAt |-> nowv]

\* the skip test of generateAllEmails
SkipsNothing(abuseEmail) == FALSE

IsSkipped(abuseEmail) == abuseEmail = UNKNOWN

RECURSIVE generateFrom(_, _, _, _, _, _)
generateFrom(abuseGroups, n, emails, ipLogMap, opts, nowv) ==
  IF n > Len(abuseGroups) THEN emails
  ELSE IF IsSkipped(abuseGroups[n][1])
       THEN generateFrom(abuseGroups, n + 1, emails, ipLogMap, opts, nowv)
       ELSE generateFrom(abuseGroups, n + 1,
              Append(emails, generateEmail(abuseGroups[n][1], abuseGroups[n][2],
                                           ipLogMap, opts, nowv)),
              ipLogMap, opts, nowv)

generateAllEmails(abuseGroups, ipLogMap, opts, nowv) ==
  generateFrom(abuseGroups, 1, <<>>, ipLogMap, opts, nowv)

\* the test that makes generateUnknownIPsSummary return null
nullOnlyIfMissing(abuseGroups) == ~MapHas(abuseGroups, UNKNOWN)

noUnknownGroup(abuseGroups) ==
  \/ ~MapHas(abuseGroups, UNKNOWN)
  \/ Len(MapGet(abuseGroups, UNKNOWN)) = 0

\* one pass of for (const info of unknownGroup)
unknownEntry(r) ==
  << <<"  ", r.ip>> >>
    \o (IF Truthy(r.orgName) /\ r.orgName # "Unknown"
        THEN << <<"    Organization:", r.orgName>> >> ELSE <<>>)
    \o (IF Truthy(r.error) THEN << <<"    Error:", r.error>> >> ELSE <<>>)

RECURSIVE unknownEntriesFrom(_, _)
unknownEntriesFrom(unknownGroup, n) ==
  IF n > Len(unknownGroup) THEN <<>>
  ELSE unknownEntry(unknownGroup[n]) \o unknownEntriesFrom(unknownGroup, n + 1)

\* the result is a string or null: absent says which
generateUnknownIPsSummary(abuseGroups) ==
  IF noUnknownGroup(abuseGroups) THEN [absent |-> TRUE]
  ELSE [absent |-> FALSE,
        lines |->
       << Rule("=", 78),
          <<"IPs WITHOUT ABUSE CONTACT INFORMATION">>,
          Rule("=", 78),
          Blank,
          <<"The following IPs could not be matched to an abuse contact:">>,
          Blank >>
         \o unknownEntriesFrom(MapGet(abuseGroups, UNKNOWN), 1)
         \o << Blank,
               <<"You may need to manually look up abuse contacts for these IPs.">>,
               Blank >>]

\* ================================================================== state
VARIABLES
  whoisCache,      \* Map ip -> Lookup Record
  lastWhoisQuery,  \* Date.now() of the last rateLimitDelay that completed
  now,             \* Date.now()
  pc,              \* per task: where its async function is suspended
  kind,            \* per task: the exported function it called
  ip,              \* per task: argument of the running lookupIP
  wakeAt,          \* per task: when its setTimeout is due
  waited,          \* per task: the running lookupIP went through setTimeout
  info,            \* per task: the record lookupIP resolved with
  ips,             \* per task: argument of lookupIPs
  i,               \* per task: loop variable of lookupIPs (0-based)
  results,         \* per task: the results Map of lookupIPs
  abuseGroups,     \* per task: main's abuseGroups
  emails,          \* per task: main's emails
  trace,           \* per task: events of the running lookupIPs, in order
  issued,          \* history: the external queries dispatched, in order
  failed,          \* history: addresses whose external query was rejected
  asked,           \* history: addresses lookupIP has been called with
  nCalls,          \* history: number of top-level calls made
  gPhase,          \* stand-alone group/generate: "in", "grouped", "generated"
  gIn,             \* stand-alone input of groupByAbuseEmail
  gGroups,         \* stand-alone Contact Group
  gEmails,         \* stand-alone result of generateAllEmails
  lines,           \* main: the lines read from stdin
  options,         \* main: the parsed command line
  ipLogMap,        \* main: the Log Index
  stage,           \* main: how far it is before lookupIPs is called
  summary,         \* main: result of generateUnknownIPsSummary
  fnName,          \* a function applied on its own: its name
  fnArg,           \*   its argument
  fnRet,           \*   its result, once fnDone
  fnDone

engineVars == <<whoisCache, lastWhoisQuery, now, pc, kind, ip, wakeAt, waited, info,
                ips, i, results, abuseGroups, emails, trace, issued, failed,
                asked, nCalls>>
pureVars == <<gPhase, gIn, gGroups, gEmails>>
runVars == <<lines, options, ipLogMap, stage, summary>>
fnVars == <<fnName, fnArg, fnRet, fnDone>>
vars == <<whoisCache, lastWhoisQuery, now, pc, kind, ip, wakeAt, waited, info,
          ips, i, results, abuseGroups, emails, trace, issued, failed,
          asked, nCalls, gPhase, gIn, gGroups, gEmails,
          lines, options, ipLogMap, stage, summary, fnName, fnArg, fnRet, fnDone>>

\* module load: empty cache, lastWhoisQuery = 0, nobody has called yet
EngineInit ==
  /\ whoisCache = <<>>
  /\ lastWhoisQuery = 0
  /\ now = StartTime
  /\ pc = [t \in Tasks |-> "idle"]
  /\ kind = [t \in Tasks |-> "none"]
  /\ ip = [t \in Tasks |-> Null]
  /\ wakeAt = [t \in Tasks |-> 0]
  /\ waited = [t \in Tasks |-> FALSE]
  /\ info = [t \in Tasks |-> Null]
  /\ ips = [t \in Tasks |-> <<>>]
  /\ i = [t \in Tasks |-> 0]
  /\ results = [t \in Tasks |-> <<>>]
  /\ abuseGroups = [t \in Tasks |-> <<>>]
  /\ emails = [t \in Tasks |-> <<>>]
  /\ trace = [t \in Tasks |-> <<>>]
  /\ issued = <<>>
  /\ failed = {}
  /\ asked = {}
  /\ nCalls = 0

PureIdle ==
  /\ gPhase = "off"
  /\ gIn = <<>>
  /\ gGroups = <<>>
  /\ gEmails = <<>>

\* parseArgs without arguments
DefaultOptions ==
  [senderEmail |-> "abuse@example.com",
   senderName |-> "Abuse Reporter",
   senderOrg |-> "System Administrator",
   maxLogsPerIP |-> 50,
   threshold |-> 2]

\* main has not read its input
RunIdle ==
  /\ lines = <<>>
  /\ options = DefaultOptions
  /\ ipLogMap = <<>>
  /\ stage = "off"
  /\ summary = Null

\* no function is applied on its own
FnIdle ==
  /\ fnName = "none"
  /\ fnArg = <<>>
  /\ fnRet = <<>>
  /\ fnDone = FALSE

Init == EngineInit /\ PureIdle /\ RunIdle /\ FnIdle

Quiet == \A t \in Tasks : pc[t] = "idle"

\* ------------------------------------------------------------ lookupIP
\* lookupIP(a) entered by task t: runs lookupIPHead and suspends or resolves
EnterLookup(t, a) ==
  LET h == lookupIPHead(whoisCache, lastWhoisQuery, now, a)
  IN /\ ip' = [ip EXCEPT ![t] = a]
     /\ asked' = asked \cup {a}
     /\ lastWhoisQuery' = h.last
     /\ wakeAt' = [wakeAt EXCEPT ![t] = h.wake]
     /\ waited' = [waited EXCEPT ![t] = (h.kind = "wait")]
     /\ info' = [info EXCEPT ![t] = h.info]
     /\ pc' = [pc EXCEPT ![t] = CASE h.kind = "hit" -> "resolved"
                                  [] h.kind = "wait" -> "rl_wait"
                                  [] h.kind = "go" -> "rl_done"]

\* a caller invokes the exported lookupIP(a)
CallLookupIP(t, a) ==
  /\ pc[t] = "idle"
  /\ nCalls < MaxCalls
  /\ nCalls' = nCalls + 1
  /\ kind' = [kind EXCEPT ![t] = "lookupIP"]
  /\ EnterLookup(t, a)
  /\ UNCHANGED <<whoisCache, now, ips, i, results, abuseGroups, emails, trace,
                 issued, failed>>
  /\ UNCHANGED <<pureVars, runVars, fnVars>>

\* the setTimeout of rateLimitDelay fires; lastWhoisQuery = Date.now()
TimerFires(t) ==
  /\ pc[t] = "rl_wait"
  /\ now >= wakeAt[t]
  /\ lastWhoisQuery' = now
  /\ pc' = [pc EXCEPT ![t] = "rl_done"]
  /\ UNCHANGED <<whoisCache, now, kind, ip, wakeAt, waited, info, ips, i, results,
                 abuseGroups, emails, trace, issued, failed, asked, nCalls>>
  /\ UNCHANGED <<pureVars, runVars, fnVars>>

\* after await rateLimitDelay(): execAsync(`whois ${ip}`) is dispatched
Dispatch(t) ==
  /\ pc[t] = "rl_done"
  /\ issued' = Append(issued, [ip |-> ip[t], at |-> now, waited |-> waited[t]])
  /\ trace' = [trace EXCEPT ![t] =
                 IF kind[t] = "lookupIPs"
                 THEN Append(@, [ev |-> "dispatch", pos |-> i[t] + 1, args |-> <<ip[t]>>])
                 ELSE @]
  /\ pc' = [pc EXCEPT ![t] = "exec"]
  /\ UNCHANGED <<whoisCache, lastWhoisQuery, now, kind, ip, wakeAt, waited, info, ips,
                 i, results, abuseGroups, emails, failed, asked, nCalls>>
  /\ UNCHANGED <<pureVars, runVars, fnVars>>

\* a query without a timeout that never ends
ExecHangs(t, outcome) ==
  /\ FALSE
  /\ UNCHANGED vars

\* the external query ends (stdout, or a rejection caught by the catch
\* branch); the record is cached and lookupIP resolves with it
ExecCompletes(t, outcome) ==
  /\ pc[t] = "exec"
  /\ whoisCache' = StoreResult(whoisCache, ip[t], outcome)
  /\ info' = [info EXCEPT ![t] = ResultOf(ip[t], outcome)]
  /\ failed' = IF outcome.ok THEN failed ELSE failed \cup {ip[t]}
  /\ pc' = [pc EXCEPT ![t] = "resolved"]
  /\ UNCHANGED <<lastWhoisQuery, now, kind, ip, wakeAt, waited, ips, i, results,
                 abuseGroups, emails, trace, issued, asked, nCalls>>
  /\ UNCHANGED <<pureVars, runVars, fnVars>>

\* the caller of lookupIP receives the record
LookupIPReturns(t) ==
  /\ pc[t] = "resolved"
  /\ kind[t] = "lookupIP"
  /\ pc' = [pc EXCEPT ![t] = "idle"]
  /\ kind' = [kind EXCEPT ![t] = "none"]
  /\ ip' = [ip EXCEPT ![t] = Null]
  /\ info' = [info EXCEPT ![t] = Null]
  /\ wakeAt' = [wakeAt EXCEPT ![t] = 0]
  /\ waited' = [waited EXCEPT ![t] = FALSE]
  /\ UNCHANGED <<whoisCache, lastWhoisQuery, now, ips, i, results, abuseGroups,
                 emails, trace, issued, failed, asked, nCalls>>
  /\ UNCHANGED <<pureVars, runVars, fnVars>>

\* ------------------------------------------------------------ lookupIPs
Event(e, p, a) == [ev |-> e, pos |-> p, args |-> a]

\* const ip = ips[i]   (idx is the 0-based loop variable)
ipAtReversed(list, idx) == list[Len(list) - idx]

ipAt(list, idx) == list[idx + 1]

\* one pass of the loop body up to its await: onProgress(ip, i + 1, total),
\* then the call lookupIP(ip)
LookupThenProgress(list, idx) ==
  << Event("lookup", idx + 1, <<ipAt(list, idx)>>),
     Event("progress", idx + 1, <<ipAt(list, idx), idx + 1, Len(list)>>) >>

IterationEvents(list, idx) ==
  << Event("progress", idx + 1, <<ipAt(list, idx), idx + 1, Len(list)>>),
     Event("lookup", idx + 1, <<ipAt(list, idx)>>) >>

\* lookupIPs(list, onProgress) entered by task t: runs to the first await
EnterLookupIPs(t, list) ==
  /\ pc[t] = "idle"
  /\ nCalls < MaxCalls
  /\ nCalls' = nCalls + 1
  /\ kind' = [kind EXCEPT ![t] = "lookupIPs"]
  /\ ips' = [ips EXCEPT ![t] = list]
  /\ results' = [results EXCEPT ![t] = <<>>]
  /\ i' = [i EXCEPT ![t] = 0]
  /\ IF Len(list) = 0
     THEN /\ pc' = [pc EXCEPT ![t] = "returned"]
          /\ trace' = [trace EXCEPT ![t] = <<>>]
          /\ UNCHANGED <<ip, asked, lastWhoisQuery, wakeAt, waited, info>>
     ELSE /\ trace' = [trace EXCEPT ![t] = IterationEvents(list, 0)]
          /\ EnterLookup(t, ipAt(list, 0))
  /\ UNCHANGED <<whoisCache, now, abuseGroups, emails, issued, failed>>

\* a caller invokes the exported lookupIPs(list, onProgress)
CallLookupIPs(t, list) ==
  /\ EnterLookupIPs(t, list)
  /\ UNCHANGED <<pureVars, runVars, fnVars>>

\* await lookupIP(ip) resumes: results.set(ip, info), i++, and either the
\* next pass of the loop up to its await or return results
LoopNext(t) ==
  /\ pc[t] = "resolved"
  /\ kind[t] = "lookupIPs"
  /\ results' = [results EXCEPT ![t] = MapSet(@, ip[t], info[t])]
  /\ i' = [i EXCEPT ![t] = @ + 1]
  /\ IF i[t] + 1 < Len(ips[t])
     THEN /\ trace' = [trace EXCEPT ![t] =
                         Append(@, Event("resolved", i[t] + 1, <<ip[t]>>))
                           \o IterationEvents(ips[t], i[t] + 1)]
          /\ EnterLookup(t, ipAt(ips[t], i[t] + 1))
     ELSE /\ trace' = [trace EXCEPT ![t] =
                         Append(@, Event("resolved", i[t] + 1, <<ip[t]>>))]
          /\ pc' = [pc EXCEPT ![t] = "returned"]
          /\ UNCHANGED <<ip, asked, lastWhoisQuery, wakeAt, waited, info>>
  /\ UNCHANGED <<whoisCache, now, kind, ips, abuseGroups, emails, issued, failed,
                 nCalls>>
  /\ UNCHANGED <<pureVars, runVars, fnVars>>

\* ------------------------------------------------------------------ main
\* const abuseGroups = groupByAbuseEmail(whoisResults)
Group(t) ==
  /\ pc[t] = "returned"
  /\ abuseGroups' = [abuseGroups EXCEPT ![t] = groupByAbuseEmail(results[t])]
  /\ pc' = [pc EXCEPT ![t] = "grouped"]
  /\ UNCHANGED <<whoisCache, lastWhoisQuery, now, kind, ip, wakeAt, waited, info, ips,
                 i, results, emails, trace, issued, failed, asked, nCalls>>
  /\ UNCHANGED <<pureVars, runVars, fnVars>>

\* const emails = generateAllEmails(abuseGroups, ipLogMap, options)
Generate(t) ==
  /\ pc[t] = "grouped"
  /\ emails' = [emails EXCEPT ![t] =
                   generateAllEmails(abuseGroups[t], ipLogMap, options, now)]
  /\ pc' = [pc EXCEPT ![t] = "generated"]
  /\ UNCHANGED <<whoisCache, lastWhoisQuery, now, kind, ip, wakeAt, waited, info, ips,
                 i, results, abuseGroups, trace, issued, failed, asked, nCalls>>
  /\ UNCHANGED <<pureVars, runVars, fnVars>>

\* the pipeline is over; its locals are dropped, the module state stays
MainDone(t) ==
  /\ pc[t] = "generated"
  /\ pc' = [pc EXCEPT ![t] = "idle"]
  /\ kind' = [kind EXCEPT ![t] = "none"]
  /\ ip' = [ip EXCEPT ![t] = Null]
  /\ info' = [info EXCEPT ![t] = Null]
  /\ wakeAt' = [wakeAt EXCEPT ![t] = 0]
  /\ waited' = [waited EXCEPT ![t] = FALSE]
  /\ ips' = [ips EXCEPT ![t] = <<>>]
  /\ i' = [i EXCEPT ![t] = 0]
  /\ results' = [results EXCEPT ![t] = <<>>]
  /\ abuseGroups' = [abuseGroups EXCEPT ![t] = <<>>]
  /\ emails' = [emails EXCEPT ![t] = <<>>]
  /\ trace' = [trace EXCEPT ![t] = <<>>]
  /\ UNCHANGED <<whoisCache, lastWhoisQuery, now, issued, failed, asked, nCalls>>
  /\ UNCHANGED <<pureVars, runVars, fnVars>>

\* ----------------------------------------------------------------- clock
\* time passes while every running call is suspended in a timer or a query
Tick(d) ==
  /\ \A t \in Tasks : pc[t] \in {"idle", "rl_wait", "exec"}
  /\ nCalls < MaxCalls \/ ~Quiet
  /\ now + d <= MaxTime
  /\ now' = now + d
  /\ UNCHANGED <<whoisCache, lastWhoisQuery, pc, kind, ip, wakeAt, waited, info, ips,
                 i, results, abuseGroups, emails, trace, issued, failed, asked,
                 nCalls>>
  /\ UNCHANGED <<pureVars, runVars, fnVars>>

\* ------------------------------------------ one caller at a time (the run)
AddressLists == SeqsUpTo(IPs, MaxLen)

Next ==
  \/ \E a \in IPs : Quiet /\ CallLookupIP("other", a)
  \/ \E list \in AddressLists : Quiet /\ CallLookupIPs("main", list)
  \/ \E t \in Tasks : TimerFires(t)
  \/ \E t \in Tasks : Dispatch(t)
  \/ \E t \in Tasks, outcome \in Outcomes : ExecCompletes(t, outcome)
  \/ \E t \in Tasks : LookupIPReturns(t)
  \/ \E t \in Tasks : LoopNext(t)
  \/ \E t \in Tasks : Group(t)
  \/ \E t \in Tasks : Generate(t)
  \/ \E t \in Tasks : MainDone(t)
  \/ \E d \in TimeSteps : Tick(d)

Spec == Init /\ [][Next]_vars

\* ----------------------------- groupByAbuseEmail and generateAllEmails alone
\* The two pure functions applied to arbitrary arguments of their declared
\* types (the shapes of abuse-lookup.test.js and email-generator.test.js).
PureIPs == {"1.2.3.4", "1.2.3.5", "5.6.7.8", "9.10.11.12"}
PureContacts == {Null, "", "abuse@provider1.com", "abuse@provider2.com"}

PureInfo(a, e) ==
  [ip |-> a, abuseEmail |-> e, orgName |-> "Provider", netRange |-> Null,
   country |-> Null, rawWhois |-> Undefined, error |-> Undefined]

PureEntries == {<<a, PureInfo(a, e)>> : a \in PureIPs, e \in PureContacts}
PureInputs == {m \in SeqsUpTo(PureEntries, MaxRecs) : IsMap(m)}

PureLists == { <<>>,
               <<PureInfo("1.2.3.4", Null)>>,
               <<PureInfo("1.2.3.5", Null), PureInfo("5.6.7.8", Null)>> }
PureKeys == {"abuse@provider1.com", "abuse@provider2.com", UNKNOWN}
PureGroupEntries == {<<k, l>> : k \in PureKeys, l \in PureLists}
PureGroups == {m \in SeqsUpTo(PureGroupEntries, MaxRecs) : IsMap(m)}

PureInit ==
  /\ EngineInit
  /\ RunIdle
  /\ FnIdle
  /\ gEmails = <<>>
  /\ \/ gPhase = "in" /\ gIn \in PureInputs /\ gGroups = <<>>
     \/ gPhase = "given" /\ gIn = <<>> /\ gGroups \in PureGroups

PureGroup ==
  /\ gPhase = "in"
  /\ gGroups' = groupByAbuseEmail(gIn)
  /\ gPhase' = "grouped"
  /\ UNCHANGED <<gIn, gEmails>>
  /\ UNCHANGED <<engineVars, runVars, fnVars>>

PureGenerate ==
  /\ gPhase \in {"grouped", "given"}
  /\ gEmails' = generateAllEmails(gGroups, ipLogMap, options, now)
  /\ gPhase' = IF gPhase = "grouped" THEN "composed" ELSE "generated"
  /\ UNCHANGED <<gIn, gGroups>>
  /\ UNCHANGED <<engineVars, runVars, fnVars>>

PureNext == PureGroup \/ PureGenerate

SpecPure == PureInit /\ [][PureNext]_vars

\* ------------------------------------------------- main, from its input
\* An entry deleted from a Map while a for-of loop runs over it: the entry
\* is emptied where it stands, so the entries after it keep their places
\* and the loop, which goes by position, neither skips nor repeats one.
Hole == <<"", <<>>>>

MapDeleteShifting(m, k) ==
  LET Other(en) == en[1] # k IN SelectSeq(m, Other)

MapDelete(m, k) ==
  [j \in 1..Len(m) |-> IF m[j] # Hole /\ m[j][1] = k THEN Hole ELSE m[j]]

\* for (const [ip, logs] of ipLogMap)
\*   if (logs.length < options.threshold) ipLogMap.delete(ip)
RECURSIVE filterFrom(_, _, _)
filterFrom(m, threshold, j) ==
  IF j > Len(m) THEN m
  ELSE IF m[j] # Hole /\ Len(m[j][2]) < threshold
       THEN filterFrom(MapDelete(m, m[j][1]), threshold, j + 1)
       ELSE filterFrom(m, threshold, j + 1)

\* the entries a later reader of the Map sees
LiveEntries(m) == LET Live(en) == en # Hole IN SelectSeq(m, Live)

filterByThreshold(m, threshold) == LiveEntries(filterFrom(m, threshold, 1))

\* the log lines read from stdin
RunLines ==
  { "Attack from 203.0.113.5",
    "Connection attempt from 198.51.100.10",
    "Connection from 203.0.113.5 to 198.51.100.10 established",
    "Relay 10.0.0.1 for 203.0.113.5" }
RunInputs == SeqsUpTo(RunLines, MaxLines)
\* --threshold
Thresholds == {1, 2}

RunInit ==
  /\ EngineInit
  /\ PureIdle
  /\ FnIdle
  /\ lines \in RunInputs
  /\ \E n \in Thresholds : options = [DefaultOptions EXCEPT !.threshold = n]
  /\ ipLogMap = <<>>
  /\ stage = "read"
  /\ summary = Null

\* main after await readStdin(): exit on empty input, buildIPLogMap, the
\* threshold filter, exit when no address is left, else lookupIPs up to
\* its first await
MainStart ==
  /\ stage = "read"
  /\ IF Len(lines) = 0
     THEN /\ stage' = "exit"
          /\ UNCHANGED <<ipLogMap, engineVars>>
     ELSE LET kept == filterByThreshold(buildIPLogMap(lines), options.threshold)
              uniqueIPs == MapKeys(kept)
          IN /\ ipLogMap' = kept
             /\ IF Len(uniqueIPs) = 0
                THEN /\ stage' = "exit"
                     /\ UNCHANGED engineVars
                ELSE /\ stage' = "lookup"
                     /\ EnterLookupIPs("main", uniqueIPs)
  /\ UNCHANGED <<lines, options, summary>>
  /\ UNCHANGED <<pureVars, fnVars>>

\* the text output: const unknownSummary = generateUnknownIPsSummary(abuseGroups)
MainEnd ==
  /\ stage = "lookup"
  /\ pc["main"] = "generated"
  /\ summary' = generateUnknownIPsSummary(abuseGroups["main"])
  /\ stage' = "done"
  /\ UNCHANGED <<lines, options, ipLogMap>>
  /\ UNCHANGED <<engineVars, pureVars, fnVars>>

RunNext ==
  \/ MainStart
  \/ TimerFires("main")
  \/ Dispatch("main")
  \/ \E outcome \in Outcomes : ExecCompletes("main", outcome)
  \/ LoopNext("main")
  \/ Group("main")
  \/ Generate("main")
  \/ MainEnd
  \/ \E d \in TimeSteps : stage = "lookup" /\ Tick(d)

SpecRun == RunInit /\ [][RunNext]_vars

\* ------------------------------------------------ lookupIPs to its return
\* time passes until the setTimeout of rateLimitDelay is due, however far
\* away that is
TimerDue(t) ==
  /\ pc[t] = "rl_wait"
  /\ now < wakeAt[t]
  /\ now' = wakeAt[t]
  /\ UNCHANGED <<whoisCache, lastWhoisQuery, pc, kind, ip, wakeAt, waited, info, ips,
                 i, results, abuseGroups, emails, trace, issued, failed, asked,
                 nCalls>>
  /\ UNCHANGED <<pureVars, runVars, fnVars>>

LiveNext ==
  \/ \E list \in AddressLists : CallLookupIPs("main", list)
  \/ TimerDue("main")
  \/ TimerFires("main")
  \/ Dispatch("main")
  \/ \E outcome \in Outcomes : ExecCompletes("main", outcome)
  \/ LoopNext("main")
  \/ \E d \in TimeSteps : Tick(d)

\* the event loop runs every timer that is due and every continuation that
\* is ready, and every query settles (the timeout of execAsync)
LiveFairness ==
  /\ WF_vars(TimerDue("main"))
  /\ WF_vars(TimerFires("main"))
  /\ WF_vars(Dispatch("main"))
  /\ WF_vars(\E outcome \in Outcomes : ExecCompletes("main", outcome))
  /\ WF_vars(LoopNext("main"))

SpecLive == Init /\ [][LiveNext]_vars /\ LiveFairness

\* ------------------------------------------------- overlapping callers
\* lookupIP and lookupIPs are exported: a caller may start a lookup while
\* another one is suspended at await rateLimitDelay() or at await execAsync
OverlapIPs == IPs \cup {"192.0.2.77"}

OverlapNext ==
  \/ \E a \in OverlapIPs : CallLookupIP("other", a)
  \/ \E list \in AddressLists : CallLookupIPs("main", list)
  \/ \E t \in Tasks : TimerFires(t)
  \/ \E t \in Tasks : Dispatch(t)
  \/ \E t \in Tasks, outcome \in Outcomes : ExecCompletes(t, outcome)
  \/ \E t \in Tasks : LookupIPReturns(t)
  \/ \E t \in Tasks : LoopNext(t)
  \/ \E d \in TimeSteps : Tick(d)

SpecOverlap == Init /\ [][OverlapNext]_vars

\* ======================================== functions applied on their own
\* A pure function is applied to an argument drawn from a bounded set:
\* fnName says which function, fnArg is its argument, and the one step of
\* the run stores its result in fnRet.
FnStart(name, args) ==
  /\ EngineInit
  /\ PureIdle
  /\ RunIdle
  /\ fnName = name
  /\ fnArg \in args
  /\ fnRet = <<>>
  /\ fnDone = FALSE

FnReturn(name, ret) ==
  /\ fnName = name
  /\ ~fnDone
  /\ fnRet' = ret
  /\ fnDone' = TRUE
  /\ UNCHANGED <<fnName, fnArg>>
  /\ UNCHANGED <<engineVars, pureVars, runVars>>

FnReturned(name) == fnName = name /\ fnDone

\* ------------------------------ generateBody, generateUnknownIPsSummary
\* the log lines of email-generator.test.js
LogLineTexts ==
  <<"Log line 0", "Log line 1", "Log line 2", "Log line 3", "Log line 4",
    "Log line 5">>
FirstLogs(n) == SubSeq(LogLineTexts, 1, n)

BodyInfos ==
  { PureInfo("1.2.3.4", "abuse@provider1.com"),
    PureInfo("1.2.3.5", "abuse@provider1.com"),
    SuccessRecord("5.6.7.8", DocArin) }
BodyInfoLists == SeqsUpTo(BodyInfos, MaxLen)

\* "1.2.3.4" always has an entry (possibly without lines), "1.2.3.5" has one
\* when it has lines, "5.6.7.8" never has one
BodyLogMaps ==
  { <<<<"1.2.3.4", FirstLogs(a)>>>>
      \o (IF b = 0 THEN <<>> ELSE <<<<"1.2.3.5", FirstLogs(b)>>>>) :
    a \in 0..MaxLogs, b \in 0..MaxLogs }

BodyOptions == {[DefaultOptions EXCEPT !.maxLogsPerIP = n] : n \in 0..MaxLogs}

BodyInputs == [ipInfos : BodyInfoLists, ipLogMap : BodyLogMaps, options : BodyOptions]

SummaryInfos ==
  { PureInfo("1.2.3.4", Null),
    FailureRecord("5.6.7.8", "Command failed: whois (exit 1)"),
    SuccessRecord("203.0.113.5", DocNoContact) }
SummaryLists == SeqsUpTo(SummaryInfos, MaxLen)
SummaryKeys == {UNKNOWN, "abuse@provider1.com"}
SummaryEntries == {<<k, l>> : k \in SummaryKeys, l \in SummaryLists}
SummaryInputs ==
  {m \in SeqsUpTo(SummaryEntries, Cardinality(SummaryKeys)) : IsMap(m)}

ApplyGenerateBody ==
  FnReturn("generateBody",
           generateBody(fnArg.ipInfos, fnArg.ipLogMap, fnArg.options, now))

ApplyGenerateUnknownIPsSummary ==
  FnReturn("generateUnknownIPsSummary", generateUnknownIPsSummary(fnArg))

ComposeInit ==
  \/ FnStart("generateBody", BodyInputs)
  \/ FnStart("generateUnknownIPsSummary", SummaryInputs)

ComposeNext == ApplyGenerateBody \/ ApplyGenerateUnknownIPsSummary

SpecCompose == ComposeInit /\ [][ComposeNext]_vars

\* -------------------------------------------- extractIPs, buildIPLogMap
\* log lines in the shapes of ip-extractor.test.js
LogLines ==
  { "Attack from 203.0.113.5",
    "Connection attempt from 198.51.100.10",
    "Connection from 203.0.113.5 to 198.51.100.10 established",
    "Local connection from 192.168.1.1",
    "System started",
    "Invalid IP: 256.1.1.1 or 1.2.3.999",
    "Retry from 203.0.113.5 (was 203.0.113.5)",
    "Failed login from 2001:db8:85a3:0000:0000:8a2e:0370:7334",
    "Relay 10.0.0.1 for 203.0.113.5" }

\* Number.prototype.toString for n >= 0
DigitChars == <<"0", "1", "2", "3", "4", "5", "6", "7", "8", "9">>
RECURSIVE Decimal(_)
Decimal(n) ==
  IF n < 10 THEN <<DigitChars[n + 1]>>
  ELSE Decimal(n \div 10) \o <<DigitChars[(n % 10) + 1]>>

\* `${a}.${b}.${c}.${d}`
Dotted(q) ==
  Decimal(q[1]) \o <<".">> \o Decimal(q[2]) \o <<".">>
    \o Decimal(q[3]) \o <<".">> \o Decimal(q[4])

\* numbers around every limit of the octet pattern
OctetSamples == {42, 199, 249, 255, 256, 999, 1000}
QuadLines ==
  {<<"f", "r", "o", "m", " ">> \o Dotted(<<a, b, c, d>>) :
     a \in OctetSamples, b \in OctetSamples, c \in OctetSamples, d \in OctetSamples}

ExtractInputs == {Spell(l) : l \in LogLines} \cup QuadLines
\* lines with one address, two addresses, one address twice, a private and
\* a public address, no address
BuildLines ==
  { "Attack from 203.0.113.5",
    "Connection from 203.0.113.5 to 198.51.100.10 established",
    "Retry from 203.0.113.5 (was 203.0.113.5)",
    "Relay 10.0.0.1 for 203.0.113.5",
    "System started" }
BuildInputs == SeqsUpTo(BuildLines, MaxLines)

ApplyExtractIPs == FnReturn("extractIPs", extractIPs(fnArg))

ApplyBuildIPLogMap == FnReturn("buildIPLogMap", buildIPLogMap(fnArg))

ExtractInit ==
  \/ FnStart("extractIPs", ExtractInputs)
  \/ FnStart("buildIPLogMap", BuildInputs)

ExtractNext == ApplyExtractIPs \/ ApplyBuildIPLogMap

SpecExtract == ExtractInit /\ [][ExtractNext]_vars

\* ------------------------------------------------------------ isPrivateIP
\* the values of an octet
OctetValues == 0..255
\* first octets at and next to the ranges of privateRanges
RangeFirstOctets == {0, 1, 9, 10, 11, 99, 100, 101, 126, 127, 128,
                     168, 169, 170, 171, 172, 173, 191, 192, 193}
\* second octets at the limits of the ranges
SecondOctetSamples == {0, 15, 16, 31, 32, 63, 64, 127, 128, 168, 254, 255}
ThirdFourthOctets == {<<0, 1>>, <<255, 254>>}
QuadTexts ==
  {Dotted(<<q[1], q[2], t[1], t[2]>>) :
     q \in (RangeFirstOctets \X OctetValues) \cup (OctetValues \X SecondOctetSamples),
     t \in ThirdFourthOctets}
\* dotted quads with a leading zero
ZeroLedTexts == {<<"0">> \o Dotted(<<a, 0, 0, 1>>) : a \in {1, 10}}

LowerHexChars ==
  <<"0", "1", "2", "3", "4", "5", "6", "7", "8", "9", "a", "b", "c", "d", "e", "f">>
UpperHexChars ==
  <<"0", "1", "2", "3", "4", "5", "6", "7", "8", "9", "A", "B", "C", "D", "E", "F">>
\* n.toString(16) in the letters of chars
RECURSIVE Hex(_, _)
Hex(n, chars) ==
  IF n < 16 THEN <<chars[n + 1]>>
  ELSE Hex(n \div 16, chars) \o <<chars[(n % 16) + 1]>>

\* first groups from fb00 to feff: all of fc00::/7 and fe80::/10 with what
\* lies next to them
FirstGroups == (15 * 4096 + 11 * 256)..(15 * 4096 + 14 * 256 + 255)
V6Tails == {<<":", ":", "1">>, <<":", "0", ":", "0", ":", "0", ":", "0", ":", "0", ":", "0", ":", "1">>}
V6Texts ==
  {Hex(g, chars) \o t : g \in FirstGroups, chars \in {LowerHexChars, UpperHexChars},
                         t \in V6Tails}
    \cup {<<":", ":", "1">>, <<":", ":", "2">>,
          <<"2", "0", "0", "1", ":", "d", "b", "8", ":", ":", "1">>}

ClassifyInputs == QuadTexts \cup ZeroLedTexts \cup V6Texts

ApplyIsPrivateIP == FnReturn("isPrivateIP", isPrivateIP(fnArg))

ClassifyInit == FnStart("isPrivateIP", ClassifyInputs)

ClassifyNext == ApplyIsPrivateIP

SpecClassify == ClassifyInit /\ [][ClassifyNext]_vars

\* ------------------------------------------------------ extractAbuseEmail
\* lines of WHOIS responses: with a contact under each pattern, with two
\* contacts, without a contact
WhoisLines ==
  <<
    \* OrgAbuseEmail:  Ab@P1.io
    <<"O", "r", "g", "A", "b", "u", "s", "e", "E", "m", "a", "i", "l", ":",
      " ", " ", "A", "b", "@", "P", "1", ".", "i", "o">>,
    \* abuse-mailbox: ab@p2.io
    <<"a", "b", "u", "s", "e", "-", "m", "a", "i", "l", "b", "o", "x", ":",
      " ", "a", "b", "@", "p", "2", ".", "i", "o">>,
    \* % Abuse contact for 'x' is 'Ab@P2.io'
    <<"%", " ", "A", "b", "u", "s", "e", " ", "c", "o", "n", "t", "a", "c",
      "t", " ", "f", "o", "r", " ", "'", "x", "'", " ", "i", "s", " ", "'",
      "A", "b", "@", "P", "2", ".", "i", "o", "'">>,
    \* RAbuseEmail: r@p4.io
    <<"R", "A", "b", "u", "s", "e", "E", "m", "a", "i", "l", ":", " ", "r",
      "@", "p", "4", ".", "i", "o">>,
    \* abuse: F@a.io OrgAbuseEmail: s@b.io
    <<"a", "b", "u", "s", "e", ":", " ", "F", "@", "a", ".", "i", "o", " ",
      "O", "r", "g", "A", "b", "u", "s", "e", "E", "m", "a", "i", "l", ":",
      " ", "s", "@", "b", ".", "i", "o">>,
    \* OrgTechEmail: noc@p1.io
    <<"O", "r", "g", "T", "e", "c", "h", "E", "m", "a", "i", "l", ":", " ",
      "n", "o", "c", "@", "p", "1", ".", "i", "o">>,
    \* netname: P3
    <<"n", "e", "t", "n", "a", "m", "e", ":", " ", "P", "3">>,
    \* remarks: abuse by web
    <<"r", "e", "m", "a", "r", "k", "s", ":", " ", "a", "b", "u", "s", "e",
      " ", "b", "y", " ", "w", "e", "b">> >>

\* lines.join('\n')
RECURSIVE join(_)
join(ls) ==
  IF ls = <<>> THEN <<>>
  ELSE IF Len(ls) = 1 THEN ls[1]
       ELSE ls[1] \o <<"\n">> \o join(Tail(ls))

ParseInputs == {join(ls) : ls \in SeqsUpTo(SeqToSet(WhoisLines), MaxLines)}

\* lines of WHOIS responses: each organization field with a value, two of
\* them without one, a contact line, a country line
OrgLines ==
  <<
    \* "OrgName: Provider One "
    <<"O", "r", "g", "N", "a", "m", "e", ":", " ", "P", "r", "o", "v", "i",
      "d", "e", "r", " ", "O", "n", "e", " ">>,
    \* org-name: P2 Org
    <<"o", "r", "g", "-", "n", "a", "m", "e", ":", " ", "P", "2", " ", "O",
      "r", "g">>,
    \* Organization: P5
    <<"O", "r", "g", "a", "n", "i", "z", "a", "t", "i", "o", "n", ":", " ",
      "P", "5">>,
    \* netname: P3-NET
    <<"n", "e", "t", "n", "a", "m", "e", ":", " ", "P", "3", "-", "N", "E",
      "T">>,
    \* descr: Provider 3
    <<"d", "e", "s", "c", "r", ":", " ", "P", "r", "o", "v", "i", "d", "e",
      "r", " ", "3">>,
    \* OrgName:
    <<"O", "r", "g", "N", "a", "m", "e", ":">>,
    \* "descr:  "
    <<"d", "e", "s", "c", "r", ":", " ", " ">>,
    \* OrgAbuseEmail: ab@p1.io
    <<"O", "r", "g", "A", "b", "u", "s", "e", "E", "m", "a", "i", "l", ":",
      " ", "a", "b", "@", "p", "1", ".", "i", "o">>,
    \* Country: US
    <<"C", "o", "u", "n", "t", "r", "y", ":", " ", "U", "S">> >>

OrgInputs == {join(ls) : ls \in SeqsUpTo(SeqToSet(OrgLines), MaxLines)}

ApplyExtractAbuseEmail ==
  FnReturn("extractAbuseEmail", extractAbuseEmailChars(fnArg))

ApplyExtractOrgName ==
  FnReturn("extractOrgName", extractOrgNameChars(fnArg))

ParseInit ==
  \/ FnStart("extractAbuseEmail", ParseInputs)
  \/ FnStart("extractOrgName", OrgInputs)

ParseNext == ApplyExtractAbuseEmail \/ ApplyExtractOrgName

SpecParse == ParseInit /\ [][ParseNext]_vars

\* ================================================================= claims
IssuedTo(a) == {k \in 1..Len(issued) : issued[k].ip = a}
IssuedAddresses == {issued[k].ip : k \in 1..Len(issued)}
\* tasks inside lookupIP that have passed the cache check and not yet dispatched
BeforeDispatch == {t \in Tasks : pc[t] \in {"rl_wait", "rl_done"}}

\* C1: with calls made one after another, no address is ever queried twice,
\* only addresses somebody asked for are queried, and once every started
\* lookup has dispatched its query the number of queries equals the number
\* of distinct addresses asked for (duplicates and repeats hit the cache).
C1_OneQueryPerAddress ==
  /\ \A a \in IPs : Cardinality(IssuedTo(a)) <= 1
  /\ IssuedAddresses \subseteq asked
  /\ BeforeDispatch = {} => Len(issued) = Cardinality(asked)

\* lookupIP(b), then lookupIPs([a, a]) returned: three lookups of two
\* distinct addresses, two queries in all
C1_Witness ==
  /\ pc["main"] = "returned"
  /\ nCalls = 2
  /\ Len(ips["main"]) = 2
  /\ ips["main"][1] = ips["main"][2]
  /\ Len(issued) = 2
  /\ issued[2].ip = ips["main"][1]
  /\ Cardinality(asked) = 2

\* C2: any two consecutive external queries are dispatched at least
\* WHOIS_DELAY ms apart (dispatch time, not completion time), and the first
\* query of the run is dispatched without going through the timer.
C2_QuerySpacing ==
  /\ \A k \in 1..(Len(issued) - 1) : issued[k + 1].at - issued[k].at >= WHOIS_DELAY
  /\ Len(issued) >= 1 => ~issued[1].waited

\* the second query had to wait for the rest of the interval, while the
\* first query was still running or had just ended
C2_Witness ==
  /\ Len(issued) = 2
  /\ issued[2].waited
  /\ issued[2].at - issued[1].at = WHOIS_DELAY

\* the record the catch branch must produce for a rejected query
IsFailureRecord(r) ==
  /\ r.abuseEmail = Null
  /\ r.netRange = Null
  /\ r.country = Null
  /\ r.orgName = "Unknown"
  /\ r.rawWhois = Undefined
  /\ r.error \in Errors

Returned(t) == kind[t] = "lookupIPs" /\ pc[t] \in {"returned", "grouped", "generated"}

\* C3: whatever each query ended with, lookupIPs returns a Map holding one
\* record per distinct input address and nothing else; the record of an
\* address whose query was rejected has no contact, range, country or raw
\* text, organization "Unknown" and the error message; the other addresses
\* carry the record of their successful query.
C3_ResolveAllTotal ==
  \A t \in Tasks : Returned(t) =>
    /\ IsMap(results[t])
    /\ SeqToSet(MapKeys(results[t])) = SeqToSet(ips[t])
    /\ \A a \in SeqToSet(ips[t]) :
         LET r == MapGet(results[t], a)
         IN /\ r.ip = a
            /\ a \in failed => IsFailureRecord(r)
            /\ a \notin failed => r.error = Undefined /\ r.rawWhois \in Docs

\* the first address failed, the second was still looked up and succeeded
C3_Witness ==
  /\ Returned("main")
  /\ Len(results["main"]) = 2
  /\ results["main"][1][1] \in failed
  /\ results["main"][2][1] \notin failed
  /\ results["main"][2][2].abuseEmail = "abuse@p1.com"

TraceEvents(t, e) == {k \in 1..Len(trace[t]) : trace[t][k].ev = e}

\* C4 as stated: the callback for position i runs only once the lookup of
\* position i has been started (its query dispatched).
C4_ProgressAfterDispatch ==
  \A t \in Tasks : \A k \in TraceEvents(t, "progress") :
    \E j \in 1..(k - 1) :
      /\ trace[t][j].ev \in {"lookup", "dispatch"}
      /\ trace[t][j].pos = trace[t][k].pos

\* C4 amended: the callback for position i is invoked with (address, i,
\* total) immediately before lookupIP is called for that position, hence
\* before any query for it, and after the lookup of position i-1 has
\* resolved; it is invoked exactly once for every position begun, and for
\* every position once lookupIPs has returned.
C4_ProgressBeforeLookup ==
  \A t \in Tasks : trace[t] # <<>> =>
    LET tr == trace[t]
        P == {k \in 1..Len(tr) : tr[k].ev = "progress"}
    IN /\ \A k \in P :
            /\ tr[k].args = <<ips[t][tr[k].pos], tr[k].pos, Len(ips[t])>>
            /\ k < Len(tr)
            /\ tr[k + 1].ev = "lookup" /\ tr[k + 1].pos = tr[k].pos
            /\ tr[k].pos = 1 => k = 1
            /\ tr[k].pos > 1 => /\ tr[k - 1].ev = "resolved"
                                /\ tr[k - 1].pos = tr[k].pos - 1
            /\ \A j \in 1..(k - 1) : tr[j].pos < tr[k].pos
       /\ \A k \in 1..Len(tr) : tr[k].ev \in {"lookup", "dispatch"} =>
            \E j \in P : j < k /\ tr[j].pos = tr[k].pos
       /\ \A j, k \in P : tr[j].pos = tr[k].pos => j = k
       /\ \A p \in 1..Len(ips[t]) :
            (p <= i[t] \/ Returned(t)) => \E k \in P : tr[k].pos = p

\* two positions reported, the second a duplicate served from the cache
C4_Witness ==
  /\ Returned("main")
  /\ Cardinality(TraceEvents("main", "progress")) = 2
  /\ Cardinality(TraceEvents("main", "dispatch")) = 1
  /\ ips["main"][1] = ips["main"][2]

InFlight == {t \in Tasks : pc[t] = "exec"}
FirstIndex(list, a) ==
  CHOOSE k \in 1..Len(list) : list[k] = a /\ \A j \in 1..(k - 1) : list[j] # a

\* C5: during lookupIPs at most one external query is in flight; every query
\* is for the address at the position being processed, which is the first
\* occurrence of that address in the input; queries follow the order of
\* first occurrence; and when a query is dispatched every earlier query of
\* the run has completed or failed (its record is in the cache).
C5_OneAtATimeInOrder ==
  /\ Cardinality(InFlight) <= 1
  /\ \A t \in Tasks : kind[t] = "lookupIPs" =>
       \A k \in TraceEvents(t, "dispatch") :
         LET e == trace[t][k]
         IN /\ e.args = <<ips[t][e.pos]>>
            /\ e.pos = FirstIndex(ips[t], e.args[1])
            /\ Last(issued).ip = e.args[1] \/ MapHas(whoisCache, e.args[1])
            /\ \A j \in TraceEvents(t, "dispatch") :
                 j < k => /\ FirstIndex(ips[t], trace[t][j].args[1]) < e.pos
                          /\ MapHas(whoisCache, trace[t][j].args[1])

\* the query of the second distinct address is in flight after the first ended
C5_Witness ==
  /\ pc["main"] = "exec"
  /\ Cardinality(TraceEvents("main", "dispatch")) = 2
  /\ i["main"] = 1

\* the step in which task t calls lookupIP(a): from CallLookupIP,
\* CallLookupIPs or the next pass of the lookupIPs loop
EntryStep(t, a) ==
  /\ ip'[t] = a
  /\ pc[t] \in {"idle", "resolved"}
  /\ pc'[t] \in {"resolved", "rl_wait", "rl_done"}
  /\ pc[t] = "idle" \/ i'[t] # i[t]

\* every cache entry of this state is the same entry in the next state
CacheKept ==
  /\ Len(whoisCache') >= Len(whoisCache)
  /\ \A k \in 1..Len(whoisCache) : whoisCache'[k] = whoisCache[k]

\* a lookupIP of a cached address resolves at once with the cached record
HitReturnsCached ==
  \A t \in Tasks, a \in IPs :
    (EntryStep(t, a) /\ MapHas(whoisCache, a)) =>
      /\ pc'[t] = "resolved"
      /\ info'[t] = MapGet(whoisCache, a)

\* C6: a cached record (success or failure) is never replaced, removed or
\* changed by any step, every later lookupIP of its address returns exactly
\* that record, and the cache holds one record per address.
C6_CacheImmutable ==
  [][CacheKept /\ HitReturnsCached /\ IsMap(whoisCache')]_vars

\* the second call asked again for an address whose query had failed and
\* got the cached failure record back without a second query
C6_Witness ==
  /\ pc["other"] = "resolved"
  /\ nCalls = 2
  /\ Len(issued) = 1
  /\ ip["other"] \in failed
  /\ IsFailureRecord(info["other"])
  /\ info["other"] = MapGet(whoisCache, ip["other"])

\* a cache hit leaves the limiter, the cache, the clock and the query log alone
HitChangesNothing ==
  \A t \in Tasks, a \in IPs :
    (EntryStep(t, a) /\ MapHas(whoisCache, a)) =>
      /\ lastWhoisQuery' = lastWhoisQuery
      /\ whoisCache' = whoisCache
      /\ issued' = issued
      /\ now' = now
      /\ pc'[t] = "resolved"
      /\ wakeAt'[t] = 0

\* outside the hop between the timestamp and the dispatch, lastWhoisQuery
\* is the dispatch time of the last query actually issued
StampIsLastDispatch ==
  (\A t \in Tasks : pc[t] # "rl_done") =>
    lastWhoisQuery = IF issued = <<>> THEN 0 ELSE Last(issued).at

\* C7: a lookupIP that hits the cache does not wait, issues no query and
\* leaves lastWhoisQuery and the cache unchanged, so lastWhoisQuery stays
\* the dispatch time of the last real query and the next real query is
\* spaced from that one.
C7_HitLeavesLimiterAlone ==
  [][HitChangesNothing]_vars /\ []StampIsLastDispatch

\* lookupIP(a), then lookupIPs([a, b]): a hit the cache later than its
\* query, and the wait for b still ends WHOIS_DELAY after the query for a
C7_Witness ==
  /\ pc["main"] = "rl_wait"
  /\ i["main"] = 1
  /\ nCalls = 2
  /\ Len(issued) = 1
  /\ issued[1].ip = ips["main"][1]
  /\ now > issued[1].at
  /\ wakeAt["main"] = issued[1].at + WHOIS_DELAY
  /\ lastWhoisQuery = issued[1].at

\* ------------------------------------------------------ group and generate
\* the key the claim gives a record: its contact if present and non-empty
ContactKey(r) ==
  IF r.abuseEmail \in {Null, Undefined} \/ r.abuseEmail = ""
  THEN "unknown@unknown" ELSE r.abuseEmail

MapValues(m) == [k \in 1..Len(m) |-> m[k][2]]

RecordsWithKey(records, key) ==
  LET HasKey(r) == ContactKey(r) = key
  IN SelectSeq(records, HasKey)

RECURSIVE TotalLen(_)
TotalLen(m) == IF m = <<>> THEN 0 ELSE Len(Head(m)[2]) + TotalLen(Tail(m))

\* C8: groupByAbuseEmail partitions its input: the keys are exactly the keys
\* of the input records, the list under a key is the subsequence of the
\* input records with that key in input order, no list is empty and every
\* record is in exactly one list exactly once.
C8_GroupPartitions ==
  gPhase \in {"grouped", "composed"} =>
    /\ IsMap(gGroups)
    /\ SeqToSet(MapKeys(gGroups)) = {ContactKey(gIn[k][2]) : k \in 1..Len(gIn)}
    /\ \A g \in 1..Len(gGroups) :
         /\ gGroups[g][2] = RecordsWithKey(MapValues(gIn), gGroups[g][1])
         /\ gGroups[g][2] # <<>>
    /\ TotalLen(gGroups) = Len(gIn)

\* a null contact and an empty contact share the unresolved group, a third
\* record has a contact of its own
C8_Witness ==
  /\ gPhase = "grouped"
  /\ Len(gIn) = 3
  /\ gIn[1][2].abuseEmail = Null
  /\ gIn[2][2].abuseEmail = "abuse@provider1.com"
  /\ gIn[3][2].abuseEmail = ""
  /\ Len(gGroups) = 2
  /\ Len(MapGet(gGroups, "unknown@unknown")) = 2

\* a response without any abuse-contact line
NoContactField(doc) ==
  \A n \in 1..Len(doc) : toLowerCase(doc[n].key) \notin AbuseKeys

InGroup(groups, key, r) ==
  MapHas(groups, key) /\ r \in SeqToSet(MapGet(groups, key))

\* C9: after lookupIPs and groupByAbuseEmail, the record of an address whose
\* query failed, and of an address whose response has no abuse-contact
\* line, is in the group of the unresolved key and in no other group; every
\* input address has its record in some group (no outcome loses the batch).
C9_UnresolvedBucket ==
  \A t \in Tasks : pc[t] \in {"grouped", "generated"} =>
    \A a \in SeqToSet(ips[t]) :
      LET r == MapGet(results[t], a)
      IN /\ \E g \in 1..Len(abuseGroups[t]) : r \in SeqToSet(abuseGroups[t][g][2])
         /\ (a \in failed \/ (r.rawWhois \in Docs /\ NoContactField(r.rawWhois))) =>
              /\ InGroup(abuseGroups[t], "unknown@unknown", r)
              /\ \A g \in 1..Len(abuseGroups[t]) :
                   abuseGroups[t][g][1] # "unknown@unknown"
                     => r \notin SeqToSet(abuseGroups[t][g][2])

\* one address failed, the other answered without a contact: both unresolved
C9_Witness ==
  /\ pc["main"] = "grouped"
  /\ Len(abuseGroups["main"]) = 1
  /\ abuseGroups["main"][1][1] = "unknown@unknown"
  /\ Len(abuseGroups["main"][1][2]) = 2
  /\ abuseGroups["main"][1][2][1].error \in Errors
  /\ abuseGroups["main"][1][2][2].rawWhois = DocNoContact

\* keys of a Contact Group other than the unresolved key, in Map order
ContactKeys(groups) ==
  LET Resolved(k) == k # "unknown@unknown"
  IN SelectSeq(MapKeys(groups), Resolved)

\* C10: generateAllEmails returns one report per key other than the
\* unresolved key, in Map order, each addressed to its key; no report is
\* addressed to the unresolved key; a group with only the unresolved key or
\* with no key gives no report.
C10_OneReportPerContact ==
  gPhase \in {"composed", "generated"} =>
    /\ Len(gEmails) = Len(ContactKeys(gGroups))
    /\ \A k \in 1..Len(gEmails) :
         /\ gEmails[k].to = ContactKeys(gGroups)[k]
         /\ gEmails[k].to # "unknown@unknown"
    /\ SeqToSet(MapKeys(gGroups)) \subseteq {"unknown@unknown"} => gEmails = <<>>

\* the unresolved key sits between two contact keys and is skipped
C10_Witness ==
  /\ gPhase = "generated"
  /\ Len(gGroups) = 3
  /\ gGroups[2][1] = "unknown@unknown"
  /\ Len(gEmails) = 2
  /\ gEmails[1].to = gGroups[1][1]
  /\ gEmails[2].to = gGroups[3][1]

\* ------------------------------------------------------------ report body
\* the lines of a text from the k-th on, up to the next rule line
RECURSIVE UpToRule(_, _)
UpToRule(text, k) ==
  IF k > Len(text) \/ text[k][1] = "rule" THEN <<>>
  ELSE <<text[k]>> \o UpToRule(text, k + 1)

\* the address blocks of a body: what follows each line of dashes
BlockStarts(body) ==
  LET IsDashes(k) == body[k][1] = "rule" /\ body[k][2] = "-"
      at == {k \in 1..Len(body) : IsDashes(k)}
      Before(k) == Cardinality({j \in at : j < k})
  IN [n \in 1..Cardinality(at) |-> CHOOSE k \in at : Before(k) = n - 1]

Block(body, n) == UpToRule(body, BlockStarts(body)[n] + 1)

LinesLabelled(text, label) ==
  LET Has(l) == l[1] = label
  IN SelectSeq(text, Has)

\* the log lines a block shows, and its notices of omitted entries
ShownLogs(block) ==
  LET shown == LinesLabelled(block, "  ")
  IN [k \in 1..Len(shown) |-> shown[k][2]]
Notices(block) == LinesLabelled(block, "  ... and")

Smaller(a, b) == IF a < b THEN a ELSE b

\* the block of one address shows the first min(L, M) of its L log lines
BlockShowsFirstLines(block, logs, M) ==
  ShownLogs(block) = SubSeq(logs, 1, Smaller(Len(logs), M))

\* C11: generateBody writes one block per record, in order; the block of an
\* address with L log lines in the Log Index and maximum M shows exactly the
\* first min(L, M) of them in index order, and carries one "and N more
\* entries" notice if and only if L > M, with N = L - min(L, M).
C11_BodyTruncation ==
  FnReturned("generateBody") =>
    /\ Len(BlockStarts(fnRet)) = Len(fnArg.ipInfos)
    /\ \A n \in 1..Len(fnArg.ipInfos) :
         LET block == Block(fnRet, n)
             logs == logsOf(fnArg.ipLogMap, fnArg.ipInfos[n].ip)
             L == Len(logs)
             M == fnArg.options.maxLogsPerIP
         IN /\ block[1] = <<"IP Address:", fnArg.ipInfos[n].ip>>
            /\ BlockShowsFirstLines(block, logs, M)
            /\ Len(Notices(block)) = (IF L > M THEN 1 ELSE 0)
            /\ L > M => Notices(block)[1][2] = L - Smaller(L, M)

\* the same with a maximum of at least one line
C11_TruncationFromOne ==
  (FnReturned("generateBody") /\ fnArg.options.maxLogsPerIP >= 1) => C11_BodyTruncation

\* ------------------------------------------------------ unresolved summary
\* the list under the unresolved key, empty when the key is missing
UnresolvedBucket(groups) ==
  IF \E k \in 1..Len(groups) : groups[k][1] = "unknown@unknown"
  THEN MapGet(groups, "unknown@unknown") ELSE <<>>

AddressesOf(records) == [k \in 1..Len(records) |-> records[k].ip]

\* the addresses a summary lists, in the order of its lines
ListedAddresses(text) ==
  LET listed == LinesLabelled(text, "  ")
  IN [k \in 1..Len(listed) |-> listed[k][2]]

\* C12: generateUnknownIPsSummary returns null exactly when the unresolved
\* key is missing or its list is empty; otherwise the text lists the address
\* of every record of the unresolved bucket once, in bucket order, and no
\* address that is only in another group.
C12_SummaryListsBucket ==
  FnReturned("generateUnknownIPsSummary") =>
    LET bucket == UnresolvedBucket(fnArg)
    IN /\ fnRet.absent <=> bucket = <<>>
       /\ ~fnRet.absent =>
            /\ ListedAddresses(fnRet.lines) = AddressesOf(bucket)
            /\ \A g \in 1..Len(fnArg) : \A k \in 1..Len(fnArg[g][2]) :
                 fnArg[g][2][k].ip \notin SeqToSet(AddressesOf(bucket))
                   => fnArg[g][2][k].ip \notin SeqToSet(ListedAddresses(fnRet.lines))

\* a bucket of two records, one with an error, next to a contact's group
\* holding an address the bucket does not have
C12_Witness ==
  /\ FnReturned("generateUnknownIPsSummary")
  /\ Len(fnArg) = 2
  /\ fnArg[1][1] # "unknown@unknown"
  /\ Len(fnArg[1][2]) = 1
  /\ fnArg[1][2][1].ip = "203.0.113.5"
  /\ AddressesOf(fnArg[2][2]) = <<"5.6.7.8", "1.2.3.4">>
  /\ ~fnRet.absent
  /\ ListedAddresses(fnRet.lines) = <<"5.6.7.8", "1.2.3.4">>
  /\ Len(LinesLabelled(fnRet.lines, "    Error:")) = 1

\* ---------------------------------------------------------------- Log Index
\* the public addresses a line mentions, in the order extractIPs returns them
PublicMentions(line) ==
  LET found == extractIPs(Spell(line))
      Public(a) == ~isPrivateIP(a)
      kept == SelectSeq(found, Public)
  IN [k \in 1..Len(kept) |-> Text(kept[k])]

RECURSIVE Flatten(_)
Flatten(ss) == IF ss = <<>> THEN <<>> ELSE Head(ss) \o Flatten(Tail(ss))

\* s without the repeats of an element it already holds
RECURSIVE Distinct(_)
Distinct(s) ==
  IF s = <<>> THEN <<>>
  ELSE LET front == Distinct(SubSeq(s, 1, Len(s) - 1))
       IN IF Last(s) \in SeqToSet(front) THEN front ELSE Append(front, Last(s))

\* the input lines that mention address a, in input order
LinesMentioning(input, a) ==
  LET Mentions(l) == a \in SeqToSet(PublicMentions(l))
  IN SelectSeq(input, Mentions)

Count(s, x) == Cardinality({k \in 1..Len(s) : s[k] = x})

\* C13: buildIPLogMap returns a Map whose keys are the distinct public
\* addresses extracted from the lines, in the order of first sight, and
\* whose value for an address is the input lines that mention it, in input
\* order; lines without a public address add nothing.
C13_IndexOfPublicAddresses ==
  FnReturned("buildIPLogMap") =>
    LET sighted == Flatten([k \in 1..Len(fnArg) |-> PublicMentions(fnArg[k])])
    IN /\ IsMap(fnRet)
       /\ MapKeys(fnRet) = Distinct(sighted)
       /\ \A k \in 1..Len(fnRet) :
            fnRet[k][2] = LinesMentioning(fnArg, fnRet[k][1])

\* C14: under every address the entry has one element per input line that
\* mentions the address, however often the line mentions it: a line occurs
\* under an address as often as it occurs in the input.
C14_OncePerLine ==
  FnReturned("buildIPLogMap") =>
    \A k \in 1..Len(fnRet) :
      LET a == fnRet[k][1]
          entry == fnRet[k][2]
      IN /\ Len(entry) = Len(LinesMentioning(fnArg, a))
         /\ \A l \in SeqToSet(entry) : Count(entry, l) = Count(fnArg, l)

\* the maximal runs of digits and dots of a line
RECURSIVE DigitDotRuns(_, _, _)
DigitDotRuns(s, p, cur) ==
  LET done == IF cur = <<>> THEN <<>> ELSE <<cur>>
  IN IF p > Len(s) THEN done
     ELSE IF s[p] \in Digits \cup {"."}
          THEN DigitDotRuns(s, p + 1, Append(cur, s[p]))
          ELSE done \o DigitDotRuns(s, p + 1, <<>>)

\* the parts of a run between its dots
RECURSIVE DotParts(_, _, _)
DotParts(s, p, cur) ==
  IF p > Len(s) THEN <<cur>>
  ELSE IF s[p] = "." THEN <<cur>> \o DotParts(s, p + 1, <<>>)
       ELSE DotParts(s, p + 1, Append(cur, s[p]))

DigitValue(c) == CHOOSE n \in 0..9 : DigitChars[n + 1] = c
RECURSIVE Number(_)
Number(ds) ==
  IF ds = <<>> THEN 0
  ELSE 10 * Number(SubSeq(ds, 1, Len(ds) - 1)) + DigitValue(Last(ds))

\* a token of four groups of digits separated by dots
IsDottedQuad(s) ==
  /\ \A k \in 1..Len(s) : s[k] \in Digits \cup {"."}
  /\ Len(DotParts(s, 1, <<>>)) = 4
  /\ \A k \in 1..4 : DotParts(s, 1, <<>>)[k] # <<>>
Octets(s) == [k \in 1..4 |-> Number(DotParts(s, 1, <<>>)[k])]
HasBigOctet(s) == \E k \in 1..4 : Octets(s)[k] > 255

BadQuads(line) ==
  {t \in SeqToSet(DigitDotRuns(line, 1, <<>>)) : IsDottedQuad(t) /\ HasBigOctet(t)}
GoodQuads(line) ==
  {t \in SeqToSet(DigitDotRuns(line, 1, <<>>)) : IsDottedQuad(t) /\ ~HasBigOctet(t)}

IsPartOf(m, t) ==
  \E off \in 0..(Len(t) - Len(m)) : SubSeq(t, off + 1, off + Len(m)) = m

\* the matches of the IPv4 pattern among the addresses returned
IPv4Matches(found) ==
  LET NoColon(a) == \A k \in 1..Len(a) : a[k] # ":"
  IN SelectSeq(found, NoColon)

\* C18: every IPv4 match extractIPs returns has four octets, each at most
\* 255; nothing it returns is taken from (is a part of) a dotted-quad token
\* with an octet above 255; and a line whose dotted-quad tokens all have
\* such an octet gives no IPv4 match (no match at all for the line
\* "Invalid IP: 256.1.1.1 or 1.2.3.999").
C18_NoOctetAbove255 ==
  FnReturned("extractIPs") =>
    /\ \A k \in 1..Len(IPv4Matches(fnRet)) :
         IsDottedQuad(IPv4Matches(fnRet)[k]) /\ ~HasBigOctet(IPv4Matches(fnRet)[k])
    /\ \A k \in 1..Len(fnRet) : \A t \in BadQuads(fnArg) : ~IsPartOf(fnRet[k], t)
    /\ GoodQuads(fnArg) = {} => IPv4Matches(fnRet) = <<>>
    /\ fnArg = Spell("Invalid IP: 256.1.1.1 or 1.2.3.999") => fnRet = <<>>

\* the line of the test, with both 256.1.1.1 and 1.2.3.999, gave nothing
C18_Witness ==
  /\ FnReturned("extractIPs")
  /\ fnArg = Spell("Invalid IP: 256.1.1.1 or 1.2.3.999")
  /\ Cardinality(BadQuads(fnArg)) = 2
  /\ fnRet = <<>>

\* ----------------------------------------------------------- Classification
NoLeadingZeros(s) ==
  \A k \in 1..4 :
    LET part == DotParts(s, 1, <<>>)[k] IN Len(part) = 1 \/ part[1] # "0"

\* the IPv4 ranges 10/8, 172.16/12, 192.168/16, 127/8, 169.254/16, 0/8,
\* 100.64/10 as arithmetic on the octets
InPrivateRange(o) ==
  \/ o[1] = 10
  \/ o[1] = 172 /\ o[2] \in 16..31
  \/ o[1] = 192 /\ o[2] = 168
  \/ o[1] = 127
  \/ o[1] = 169 /\ o[2] = 254
  \/ o[1] = 0
  \/ o[1] = 100 /\ o[2] \in 64..127

\* C16: for a dotted quad with octets in 0..255 and no leading zeros
\* isPrivateIP answers true exactly when the address lies in one of the
\* seven private IPv4 ranges.
C16_PrivateRangesIPv4 ==
  (/\ FnReturned("isPrivateIP")
   /\ IsDottedQuad(fnArg) /\ ~HasBigOctet(fnArg) /\ NoLeadingZeros(fnArg))
    => (fnRet <=> InPrivateRange(Octets(fnArg)))

\* 100.127.255.254, the last but one address of 100.64/10, is private
C16_Witness ==
  /\ FnReturned("isPrivateIP")
  /\ fnArg = Dotted(<<100, 127, 255, 254>>)
  /\ fnRet = TRUE

IsV6Text(s) == \E k \in 1..Len(s) : s[k] = ":"
\* the hex digits before the first colon
RECURSIVE FirstGroup(_)
FirstGroup(s) ==
  IF s = <<>> \/ Head(s) = ":" THEN <<>> ELSE <<Head(s)>> \o FirstGroup(Tail(s))
HexDigitValue(c) ==
  CHOOSE n \in 0..15 : LowerHexChars[n + 1] = c \/ UpperHexChars[n + 1] = c
RECURSIVE HexNumber(_)
HexNumber(ds) ==
  IF ds = <<>> THEN 0
  ELSE 16 * HexNumber(SubSeq(ds, 1, Len(ds) - 1)) + HexDigitValue(Last(ds))
\* fe80::/10 is first group fe80..febf, fc00::/7 is first group fc00..fdff
InLinkLocal(g) == g \in (15 * 4096 + 14 * 256 + 128)..(15 * 4096 + 14 * 256 + 191)
InUniqueLocal(g) == g \in (15 * 4096 + 12 * 256)..(15 * 4096 + 13 * 256 + 255)

\* C17: isPrivateIP answers true for ::1 and for every IPv6 literal whose
\* first group lies in fe80..febf or in fc00..fdff, in either letter case.
C17_PrivateRangesIPv6 ==
  (/\ FnReturned("isPrivateIP")
   /\ IsV6Text(fnArg)
   /\ \/ fnArg = <<":", ":", "1">>
      \/ /\ Len(FirstGroup(fnArg)) = 4
         /\ \/ InLinkLocal(HexNumber(FirstGroup(fnArg)))
            \/ InUniqueLocal(HexNumber(FirstGroup(fnArg))))
    => fnRet = TRUE

\* ------------------------------------------------------------ Abuse contact
\* the patterns that match a line, the lines some pattern matches
MatchingPatterns(line) ==
  {k \in 1..Len(patterns) : matchGroup(patterns[k], line) # <<>>}
MatchingLines(ls) == {n \in 1..Len(ls) : MatchingPatterns(ls[n]) # {}}
Least(S) == CHOOSE x \in S : \A y \in S : x <= y
HasUpperCase(s) == \E k \in 1..Len(s) : s[k] \in SeqToSet(UpperLetters)

\* C20: the abuse contact is the group of the first pattern (in pattern
\* order) that matches the first line (top to bottom) matched by any
\* pattern, lower-cased; it is absent exactly when no line matches.
C20_FirstLineWins ==
  FnReturned("extractAbuseEmail") =>
    LET ls == split(fnArg, "\n")
    IN IF MatchingLines(ls) = {} THEN fnRet.absent
       ELSE LET line == ls[Least(MatchingLines(ls))]
                k == Least(MatchingPatterns(line))
            IN /\ ~fnRet.absent
               /\ fnRet.email = toLowerCaseChars(matchGroup(patterns[k], line))
               /\ ~HasUpperCase(fnRet.email)

\* two lines with a contact each, the second one matched by pattern 1 and
\* by pattern 2 with different groups: the contact of the first line is
\* returned, lower-cased
C20_Witness ==
  /\ FnReturned("extractAbuseEmail")
  /\ split(fnArg, "\n") = <<WhoisLines[3], WhoisLines[5]>>
  /\ MatchingPatterns(WhoisLines[3]) = {1, 5}
  /\ MatchingPatterns(WhoisLines[5]) = {1, 2}
  /\ matchGroup(patterns[1], WhoisLines[5]) # matchGroup(patterns[2], WhoisLines[5])
  /\ ~fnRet.absent
  /\ fnRet.email = <<"a", "b", "@", "p", "2", ".", "i", "o">>

\* ------------------------------------------------------------------ Pipeline
ReportedAddresses ==
  UNION {SeqToSet(emails["main"][k].ips) : k \in 1..Len(emails["main"])}
BucketAddresses ==
  SeqToSet(AddressesOf(UnresolvedBucket(abuseGroups["main"])))
GroupedAddresses ==
  UNION {SeqToSet(AddressesOf(abuseGroups["main"][k][2])) :
           k \in 1..Len(abuseGroups["main"])}
SummaryAddresses ==
  IF stage = "done" /\ ~summary.absent
  THEN SeqToSet(ListedAddresses(summary.lines)) ELSE {}
\* every address the pipeline holds after build
Downstream ==
  SeqToSet(MapKeys(ipLogMap)) \cup SeqToSet(ips["main"]) \cup asked
    \cup IssuedAddresses \cup SeqToSet(MapKeys(results["main"]))
    \cup GroupedAddresses \cup BucketAddresses \cup ReportedAddresses
    \cup SummaryAddresses

\* C15: an address that isPrivateIP classifies private is never a key of the
\* Log Index, never handed to lookupIPs or queried, never in a group, in the
\* address list of a report, in the unresolved bucket or in its summary.
\* (No address is downstream before main has read its input, so the
\* addresses are classified at the steps that change the set.)
C15_PrivateNeverDownstream ==
  [][Downstream' # Downstream
       => \A a \in Downstream' : ~isPrivateIP(Spell(a))]_vars

\* a run whose input mentions the private 10.0.0.1 next to a public
\* address ended with the public address reported or summarised
C15_Witness ==
  /\ stage = "done"
  /\ "Relay 10.0.0.1 for 203.0.113.5" \in SeqToSet(lines)
  /\ "203.0.113.5" \in ReportedAddresses \cup SummaryAddresses
  /\ isPrivateIP(Spell("10.0.0.1"))

\* the entries of a Log Index with at least threshold lines, in its order
WithAtLeast(index, threshold) ==
  LET Enough(en) == Len(en[2]) >= threshold IN SelectSeq(index, Enough)

\* C19: the step of main that filters leaves in the Log Index exactly the
\* entries with at least threshold lines, unchanged and in insertion order;
\* main exits when there is none and otherwise hands exactly their
\* addresses, in that order, to lookupIPs.  Afterwards the index stays as
\* it is, no other address is queried, grouped or reported, and each of its
\* addresses has a lookup record when lookupIPs has returned.
C19_ThresholdFilter ==
  [][LET want == WithAtLeast(buildIPLogMap(lines), options.threshold)
     IN /\ (stage = "read" /\ Len(lines) > 0) =>
             /\ ipLogMap' = want
             /\ (stage' = "exit") <=> (want = <<>>)
             /\ stage' # "exit" => ips'["main"] = MapKeys(want)
        /\ stage # "read" => ipLogMap' = ipLogMap
        /\ Downstream' \subseteq SeqToSet(MapKeys(ipLogMap'))
        /\ pc'["main"] \in {"returned", "grouped", "generated"}
             => MapKeys(results'["main"]) = MapKeys(ipLogMap')]_vars

\* both addresses were in the index, the first with one line and the
\* second with two; with threshold 2 only the second was looked up
C19_Witness ==
  /\ stage = "done"
  /\ options.threshold = 2
  /\ MapKeys(ipLogMap) = <<"198.51.100.10">>
  /\ IssuedAddresses = {"198.51.100.10"}
  /\ MapKeys(buildIPLogMap(lines)) = <<"203.0.113.5", "198.51.100.10">>

\* ------------------------------------------------------------ Organization
\* a line "key: value": the key in lower case, the value trimmed
RECURSIVE UpToColon(_)
UpToColon(s) ==
  IF s = <<>> \/ Head(s) = ":" THEN <<>> ELSE <<Head(s)>> \o UpToColon(Tail(s))
KeyOf(line) == toLowerCaseChars(UpToColon(line))
ValueOf(line) ==
  trimChars(SubSeq(line, Len(UpToColon(line)) + 2, Len(line)))

\* the organization fields, highest priority first
OrgFields ==
  << <<"o", "r", "g", "n", "a", "m", "e">>,
     <<"o", "r", "g", "-", "n", "a", "m", "e">>,
     <<"o", "r", "g", "a", "n", "i", "z", "a", "t", "i", "o", "n">>,
     <<"n", "e", "t", "n", "a", "m", "e">>,
     <<"d", "e", "s", "c", "r">> >>

\* the lines that carry field f with a value
LinesWith(ls, f) ==
  {n \in 1..Len(ls) : KeyOf(ls[n]) = OrgFields[f] /\ ValueOf(ls[n]) # <<>>}
FieldsPresent(ls) == {f \in 1..Len(OrgFields) : LinesWith(ls, f) # {}}

\* C21: extractOrgName returns the trimmed value of the highest-priority
\* organization field that the document carries with a value, wherever
\* its line stands, and "Unknown" when the document carries none.
C21_OrgByFieldPriority ==
  FnReturned("extractOrgName") =>
    LET ls == split(fnArg, "\n")
    IN IF FieldsPresent(ls) = {} THEN fnRet = <<"U", "n", "k", "n", "o", "w", "n">>
       ELSE LET f == Least(FieldsPresent(ls))
            IN fnRet = ValueOf(ls[Least(LinesWith(ls, f))])

\* ------------------------------------------------------------- Termination
AllHaveRecords ==
  \A k \in 1..Len(ips["main"]) : MapHas(results["main"], ips["main"][k])

\* C22: whenever lookupIPs has been called, it eventually returns, and
\* when it has returned every address of its list has a record in the
\* result (given that timers fire, continuations run and queries settle).
C22_LookupIPsReturns ==
  (kind["main"] = "lookupIPs")
    ~> (pc["main"] = "returned" /\ AllHaveRecords)

\* lookupIPs returned for two addresses after a rate-limit wait and a
\* failed query
C22_Witness ==
  /\ pc["main"] = "returned"
  /\ Len(ips["main"]) = 2
  /\ Len(issued) = 2
  /\ issued[2].waited
  /\ failed # {}
  /\ AllHaveRecords

\* ------------------------------------------------------ overlapping callers
\* C23: with overlapping callers of lookupIP, the external queries for two
\* different addresses are still dispatched at least WHOIS_DELAY ms apart.
C23_SpacingWhenOverlapping ==
  \A j, k \in 1..Len(issued) :
    (j < k /\ issued[j].ip # issued[k].ip) =>
      issued[k].at - issued[j].at >= WHOIS_DELAY

\* C24: with overlapping callers of lookupIP, at most one external query is
\* issued for an address, and two callers that hold the record of the same
\* address hold the same record.
C24_OneQueryWhenOverlapping ==
  /\ \A a \in OverlapIPs : Cardinality(IssuedTo(a)) <= 1
  /\ \A t, u \in Tasks :
       (pc[t] = "resolved" /\ pc[u] = "resolved" /\ ip[t] = ip[u]) =>
         info[t] = info[u]

\* ------------------------------------------------------ every address once
\* how often an address stands in a list
Occurrences(a, list) == Cardinality({k \in 1..Len(list) : list[k] = a})

RECURSIVE ReportOccurrences(_, _, _)
ReportOccurrences(a, reports, n) ==
  IF n > Len(reports) THEN 0
  ELSE Occurrences(a, reports[n].ips) + ReportOccurrences(a, reports, n + 1)

\* C25: after main has grouped and generated, every address handed to
\* lookupIPs stands exactly once in the address lists of the reports and the
\* unresolved bucket together (and no other address does), every report has
\* a non-empty address list, and each report's list is the addresses of its
\* group's records in group order.
C25_EveryAddressAccountedOnce ==
  pc["main"] = "generated" =>
    LET reports == emails["main"]
        groups == abuseGroups["main"]
        bucket == AddressesOf(UnresolvedBucket(groups))
    IN /\ \A a \in SeqToSet(ips["main"]) :
            ReportOccurrences(a, reports, 1) + Occurrences(a, bucket) = 1
       /\ ReportedAddresses \cup BucketAddresses = SeqToSet(ips["main"])
       /\ \A k \in 1..Len(reports) :
            /\ Len(reports[k].ips) > 0
            /\ MapHas(groups, reports[k].to)
            /\ reports[k].ips = AddressesOf(MapGet(groups, reports[k].to))

\* two addresses under one contact in one report; and one address reported
\* while the other is in the unresolved bucket
C25_SharedReport ==
  /\ pc["main"] = "generated"
  /\ Cardinality(SeqToSet(ips["main"])) = 2
  /\ Len(emails["main"]) = 1
  /\ Len(emails["main"][1].ips) = 2
  /\ BucketAddresses = {}

C25_Witness ==
  /\ pc["main"] = "generated"
  /\ Cardinality(SeqToSet(ips["main"])) = 2
  /\ Len(emails["main"]) = 1
  /\ Cardinality(BucketAddresses) = 1

====
